---- MODULE Spec2Model ----
(***************************************************************************)
(* A model of the window-resolution, tree-addressing, coordinate-transform *)
(* and extraction-protocol layer of macos-commander.                       *)
(*                                                                         *)
(* JavaScript strings are sequences of one-character strings, so that      *)
(* lower-casing, character filtering, slicing, splitting and substring     *)
(* search are computed as the code computes them.                          *)
(***************************************************************************)
EXTENDS Integers, Sequences, FiniteSets, TLC

VARIABLES
    windows,      \* searchWindows: the window list handed in by the caller
    query,        \* searchWindows: the query of the last call
    scored,       \* searchWindows: the {window, score} list of the last call
    matches,      \* searchWindows: the list it returned
    best,         \* findBestWindow: what it returned (Null before any call)
    searched,     \* whether searchWindows / findBestWindow has been called
    tree,         \* assignHierarchicalIds: the tree handed in
    tree2,        \* a second tree of the same shape, handed to a second call
    parentId,     \* assignHierarchicalIds: its parentId argument ("" by default)
    assigned,     \* assignHierarchicalIds(tree, parentId), Null before the call
    assigned2,    \* assignHierarchicalIds(tree2, parentId), Null before the call
    heap,         \* the objects of the input tree and of the tree returned
    targetId,     \* findNodeById: the id looked up
    found,        \* findNodeById: what it returned
    looked,       \* whether findNodeById has been called
    calls,        \* the extraction request: its call and, behind it, the redispatch
    prompts,      \* permission prompts shown for the request
    acks,         \* prompts the user has acknowledged
    dispatches,   \* extractor processes spawned for the request
    screenCoords,          \* the point given to normalizeCoordinatesToScreenshot
    windowInfo,            \* the window's position and size
    screenshotDimensions,  \* the screenshot's size in pixels
    normalized,            \* the returned point, empty before the call
    normalizedSize,        \* what normalizeSizeToScreenshot returned
    normalizedFull,        \* what normalizeScreenCoordinatesToFullScreenshot returned
    clickCall,    \* a call of click(nodeId, options): arguments, position, outcome
    invoked,      \* what the call has run outside itself, in order
    actCall       \* a call of act(prompt, model): position and what it holds

winVars == <<windows, query, scored, matches, best, searched>>
treeVars == <<tree, tree2, parentId, assigned, assigned2, heap, targetId, found, looked>>

extVars == <<calls, prompts, acks, dispatches>>

coordVars == <<screenCoords, windowInfo, screenshotDimensions, normalized,
               normalizedSize, normalizedFull>>

clickVars == <<clickCall, invoked>>
actVars == <<actCall>>

vars == <<winVars, treeVars, extVars, coordVars, clickVars, actVars>>

(***************************************************************************)
(* Bounds of the model                                                     *)
(***************************************************************************)
MaxWindows == 3      \* longest window list of the ranking specification
MaxTitleLen == 3     \* longest window title of the scoring specification
MaxAppLen == 1       \* longest application name of the scoring specification
MaxIdLen == 2        \* longest extractor-supplied id of the scoring specification
MaxNodes == 4        \* most nodes of an accessibility tree

(***************************************************************************)
(* Strings                                                                 *)
(***************************************************************************)
Null == [null |-> TRUE]

\* All strings over the characters cs of length at most n.
RECURSIVE StrUpTo(_, _)
StrUpTo(cs, n) ==
    IF n = 0 THEN {<<>>}
    ELSE LET shorter == StrUpTo(cs, n - 1)
         IN  shorter \cup {Append(s, c) : s \in shorter, c \in cs}

Str(s) == [i \in 1..Len(s) |-> s[i]]

UpperCase == {"A", "B", "C"}
LowerCase == {"a", "b", "c", "x", "y"}
Digits == {"0", "1", "2", "3", "4", "5", "6", "7", "8", "9"}
WhiteSpace == {" "}

\* String.prototype.toLowerCase, one character.
LowerChar(c) ==
    CASE c = "A" -> "a"
      [] c = "B" -> "b"
      [] c = "C" -> "c"
      [] OTHER -> c

toLowerCase(s) == [i \in 1..Len(s) |-> LowerChar(s[i])]

\* Mutant: nothing is dropped.
stripNonAlnum_Nothing(s) == s

\* s.replace(/[^a-z0-9]/g, ""): drop every character outside a-z and 0-9.
stripNonAlnum(s) == SelectSeq(s, LAMBDA c : c \in LowerCase \cup Digits)

\* Mutant: nothing is cut off.
slice0_Whole(s, n) == s

\* s.slice(0, n)
slice0(s, n) == SubSeq(s, 1, IF Len(s) < n THEN Len(s) ELSE n)

\* Mutant: the empty string is contained in nothing.
includes_NotEmpty(hay, needle) ==
    /\ needle # <<>>
    /\ \E i \in 1..(Len(hay) - Len(needle) + 1) :
           SubSeq(hay, i, i + Len(needle) - 1) = needle

\* hay.includes(needle)
includes(hay, needle) ==
    \E i \in 1..(Len(hay) - Len(needle) + 1) :
        SubSeq(hay, i, i + Len(needle) - 1) = needle

\* s.split(/\s+/): cut at every maximal run of whitespace; a leading or a
\* trailing run leaves an empty first or last piece, "" gives [""].
RECURSIVE splitFrom(_, _, _)
splitFrom(s, i, cur) ==
    IF i > Len(s) THEN <<cur>>
    ELSE IF s[i] \in WhiteSpace
         THEN IF i > 1 /\ s[i - 1] \in WhiteSpace
              THEN splitFrom(s, i + 1, cur)
              ELSE <<cur>> \o splitFrom(s, i + 1, <<>>)
         ELSE splitFrom(s, i + 1, Append(cur, s[i]))

splitWhitespace(s) == splitFrom(s, 1, <<>>)

RECURSIVE SumSeq(_)
SumSeq(s) == IF s = <<>> THEN 0 ELSE Head(s) + SumSeq(Tail(s))

(***************************************************************************)
(* Window Resolver                                                         *)
(***************************************************************************)
IdAppLen == 10
IdTitleLen == 15
IdMatchScore == 1000
ExactScore == 100
CombinedScore == 50
ContainsScore == 30
WordScore == 10
TrigramScore == 2
MinWordLen == 2
GramLen == 3

generateWindowId(appName, windowTitle) ==
    LET cleanApp == slice0(stripNonAlnum(toLowerCase(appName)), IdAppLen)
        cleanTitle == slice0(stripNonAlnum(toLowerCase(windowTitle)), IdTitleLen)
    IN  cleanApp \o <<"-">> \o cleanTitle

\* /^[a-z0-9-]+$/.test(windowIdentifier) && windowIdentifier.includes("-")
isWindowId(windowIdentifier) ==
    /\ Len(windowIdentifier) >= 1
    /\ \A i \in 1..Len(windowIdentifier) :
           windowIdentifier[i] \in LowerCase \cup Digits \cup {"-"}
    /\ includes(windowIdentifier, <<"-">>)

\* const args = isWindowId ? ["--window-id", windowIdentifier] : [windowIdentifier]
extractorArgs(windowIdentifier) ==
    IF isWindowId(windowIdentifier) THEN <<<<"--window-id">>, windowIdentifier>>
    ELSE <<windowIdentifier>>

\* The fuzzy part for one query word against one word of "app title".
wordScore(queryWord, combinedWord) ==
    (IF includes(combinedWord, queryWord) THEN WordScore ELSE 0)
    + (IF Len(queryWord) >= GramLen
       THEN TrigramScore *
            Cardinality({i \in 1..(Len(queryWord) - GramLen + 1) :
                includes(combinedWord, SubSeq(queryWord, i, i + GramLen - 1))})
       ELSE 0)

fuzzyScore(queryLower, combinedLower) ==
    LET queryWords == splitWhitespace(queryLower)
        combinedWords == splitWhitespace(combinedLower)
    IN  SumSeq([i \in 1..Len(queryWords) |->
            IF Len(queryWords[i]) < MinWordLen THEN 0
            ELSE SumSeq([j \in 1..Len(combinedWords) |->
                     wordScore(queryWords[i], combinedWords[j])])])

\* Mutant of the id test: a query contained in the id counts as the id.
idMatches_Contained(window, queryLower) == includes(window.id, queryLower)

idMatches(window, queryLower) == window.id = queryLower

calculateWindowSimilarity(q, window) ==
    LET queryLower == toLowerCase(q)
        appLower == toLowerCase(window.app)
        titleLower == toLowerCase(window.title)
        combinedLower == appLower \o <<" ">> \o titleLower
    IN  IF idMatches(window, queryLower) THEN IdMatchScore
        ELSE (IF appLower = queryLower \/ titleLower = queryLower
              THEN ExactScore ELSE 0)
           + (IF includes(combinedLower, queryLower) THEN CombinedScore ELSE 0)
           + (IF includes(appLower, queryLower) THEN ContainsScore ELSE 0)
           + (IF includes(titleLower, queryLower) THEN ContainsScore ELSE 0)
           + fuzzyScore(queryLower, combinedLower)

\* w.id || generateWindowId(w.app, w.title): an absent id and "" are falsy.
hasId(w) == "id" \in DOMAIN w /\ w.id # <<>>

\* windows.map((w) => ({...w, id: ...})): one new object per input window;
\* ref is the position of the input window the object was made from.
windowsWithIds(ws) ==
    [i \in 1..Len(ws) |->
        [app |-> ws[i].app, title |-> ws[i].title,
         id |-> IF hasId(ws[i]) THEN ws[i].id
                ELSE generateWindowId(ws[i].app, ws[i].title),
         ref |-> i]]

scoreAll(q, ws) ==
    LET withIds == windowsWithIds(ws)
    IN  [i \in 1..Len(ws) |->
            [window |-> withIds[i],
             score |-> calculateWindowSimilarity(q, withIds[i])]]

keepsItem(item) == item.score > 0

\* Mutants of the comparator: ascending order; ties reordered.
sortsBefore_Ascending(a, b) == a.score < b.score
sortsBefore_TiesFirst(a, b) == a.score >= b.score

\* Array.prototype.sort((a, b) => b.score - a.score): a stable sort; an item
\* goes behind every item already placed that it does not strictly outscore.
sortsBefore(a, b) == a.score > b.score

RECURSIVE insertSorted(_, _)
insertSorted(sorted, item) ==
    IF sorted = <<>> THEN <<item>>
    ELSE IF sortsBefore(item, Head(sorted))
         THEN <<item>> \o sorted
         ELSE <<Head(sorted)>> \o insertSorted(Tail(sorted), item)

RECURSIVE sortByScore(_)
sortByScore(items) ==
    IF items = <<>> THEN <<>>
    ELSE insertSorted(sortByScore(SubSeq(items, 1, Len(items) - 1)),
                      items[Len(items)])

searchWindows(q, ws) ==
    LET kept == SelectSeq(scoreAll(q, ws), keepsItem)
        ranked == sortByScore(kept)
    IN  [i \in 1..Len(ranked) |-> ranked[i].window]

findBestWindow(q, ws) ==
    LET results == searchWindows(q, ws)
    IN  IF Len(results) > 0 THEN results[1] ELSE Null

(***************************************************************************)
(* Tree Addressing                                                         *)
(***************************************************************************)
\* `${n}` for a number n >= 0: its decimal digits.
digitChar(d) ==
    CASE d = 0 -> "0" [] d = 1 -> "1" [] d = 2 -> "2" [] d = 3 -> "3"
      [] d = 4 -> "4" [] d = 5 -> "5" [] d = 6 -> "6" [] d = 7 -> "7"
      [] d = 8 -> "8" [] d = 9 -> "9"

RECURSIVE numberToString(_)
numberToString(n) ==
    IF n < 10 THEN <<digitChar(n)>>
    ELSE Append(numberToString(n \div 10), digitChar(n % 10))

\* node.children && node.children.length > 0
hasChildren(node) == "children" \in DOMAIN node /\ Len(node.children) > 0

\* Mutants: the trailing separator left out; the sibling number left out;
\* the root seeded with "0".
nodeIdOf_NoDot(node, currentId) == currentId
childId_NoIndex(currentId, index) == currentId \o <<".">> \o <<"1">>
rootId_Zero(parentIdArg) == IF parentIdArg # <<>> THEN parentIdArg ELSE <<"0">>

\* const nodeId = hasChildren ? `${currentId}.` : currentId
nodeIdOf(node, currentId) ==
    IF hasChildren(node) THEN Append(currentId, ".") ELSE currentId

\* currentId ? `${currentId}.${index + 1}` : `${index + 1}`, index 0-based
childId(currentId, index) ==
    IF currentId # <<>>
    THEN currentId \o <<".">> \o numberToString(index + 1)
    ELSE numberToString(index + 1)

\* const rootId = parentId || "1"
rootId(parentIdArg) == IF parentIdArg # <<>> THEN parentIdArg ELSE <<"1">>

\* { ...node, id: nodeId }, and children replaced when there are any.
RECURSIVE assignIds(_, _)
assignIds(node, currentId) ==
    [k \in DOMAIN node \cup {"id"} |->
        IF k = "id" THEN nodeIdOf(node, currentId)
        ELSE IF k = "children" /\ hasChildren(node)
             THEN [i \in 1..Len(node.children) |->
                      assignIds(node.children[i], childId(currentId, i - 1))]
             ELSE node[k]]

assignHierarchicalIds(t, parentIdArg) == assignIds(t, rootId(parentIdArg))

\* Mutant: the search stops at the first child's subtree.
RECURSIVE findNodeById_FirstChildOnly(_, _)
findNodeById_FirstChildOnly(node, target) ==
    IF "id" \in DOMAIN node /\ node.id = target THEN node
    ELSE IF "children" \notin DOMAIN node \/ node.children = <<>> THEN Null
         ELSE findNodeById_FirstChildOnly(node.children[1], target)

\* findNodeById: the node itself, else the first hit among the children's
\* subtrees in order, else null.
RECURSIVE findNodeById(_, _)
RECURSIVE findInChildren(_, _, _)
findNodeById(node, target) ==
    IF "id" \in DOMAIN node /\ node.id = target THEN node
    ELSE IF "children" \notin DOMAIN node THEN Null
         ELSE findInChildren(node.children, 1, target)

findInChildren(children, i, target) ==
    IF i > Len(children) THEN Null
    ELSE LET hit == findNodeById(children[i], target)
         IN  IF hit # Null THEN hit
             ELSE findInChildren(children, i + 1, target)

(***************************************************************************)
(* Inputs of tree addressing: every tree of at most MaxNodes nodes; a leaf *)
(* has no children field or an empty children list.  ref is the node's     *)
(* path from the root (the sibling numbers), its identity as an object.    *)
(***************************************************************************)
Roles == {"AXWindow", "AXButton"}

RECURSIVE TreesOfSize(_, _)
RECURSIVE ForestsOfSize(_, _)
TreesOfSize(n, r) ==
    IF n = 1 THEN {[role |-> r], [role |-> r, children |-> <<>>]}
    ELSE {[role |-> r, children |-> f] : f \in ForestsOfSize(n - 1, r)}

ForestsOfSize(m, r) ==
    IF m = 0 THEN {<<>>}
    ELSE UNION {{<<t>> \o f : t \in TreesOfSize(k, r),
                              f \in ForestsOfSize(m - k, r)} : k \in 1..m}

RECURSIVE withRefs(_, _)
withRefs(node, path) ==
    [k \in DOMAIN node \cup {"ref"} |->
        IF k = "ref" THEN path
        ELSE IF k = "children"
             THEN [i \in 1..Len(node.children) |->
                      withRefs(node.children[i], Append(path, i))]
             ELSE node[k]]

\* A window with ten children, the k-th of them with a child of its own:
\* sibling numbers of one and of two digits.
WideTree(k) ==
    [role |-> "AXWindow",
     children |-> [i \in 1..10 |->
                      IF i = k
                      THEN [role |-> "AXGroup", children |-> <<[role |-> "AXButton"]>>]
                      ELSE [role |-> "AXButton"]]]

InputTrees ==
    {withRefs(t, <<>>) :
        t \in UNION {TreesOfSize(n, r) : n \in 1..MaxNodes, r \in Roles}
               \cup {WideTree(1), WideTree(2)}}

RECURSIVE shapeOf(_)
shapeOf(node) ==
    IF hasChildren(node)
    THEN [i \in 1..Len(node.children) |-> shapeOf(node.children[i])]
    ELSE <<>>

RECURSIVE nodesOf(_)
nodesOf(node) ==
    {node} \cup
    (IF hasChildren(node)
     THEN UNION {nodesOf(node.children[i]) : i \in 1..Len(node.children)}
     ELSE {})

ParentIds == {<<>>, <<"2">>}

\* The ids looked up: every id of the tree, each with a "." added and with
\* its last character removed, and the empty string.
LookupIds(t) ==
    LET ids == {n.id : n \in nodesOf(t)}
    IN  ids \cup {Append(i, ".") : i \in ids}
            \cup {SubSeq(i, 1, Len(i) - 1) : i \in ids}
            \cup {<<>>}

(***************************************************************************)
(* The objects of a tree                                                   *)
(*                                                                         *)
(* A node is an object at an address; its children field lists addresses.  *)
(* The objects of the input tree are at the addresses input(path); an      *)
(* object literal made while the node at input(path) is visited gets the   *)
(* fresh address copy(path).                                               *)
(***************************************************************************)
inputAt(path) == [space |-> "input", path |-> path]

\* The node as an object: its children are addresses.
objectOf(node) ==
    [k \in DOMAIN node |->
        IF k = "children"
        THEN [i \in 1..Len(node.children) |-> inputAt(node.children[i].ref)]
        ELSE node[k]]

objectsOf(t) ==
    [a \in {inputAt(n.ref) : n \in nodesOf(t)} |->
        objectOf(CHOOSE n \in nodesOf(t) : inputAt(n.ref) = a)]

\* The tree of values found at an address.
RECURSIVE valueAt(_, _)
valueAt(objects, a) ==
    [k \in DOMAIN objects[a] |->
        IF k = "children"
        THEN [i \in 1..Len(objects[a].children) |->
                 valueAt(objects, objects[a].children[i])]
        ELSE objects[a][k]]

\* Mutant: the id is written into the node itself.
nodeWithId_InPlace(a) == a

\* const nodeWithId = { ...node, id: nodeId }: a new object
nodeWithId(a) == [space |-> "copy", path |-> a.path]

\* obj.field = value, on the object at address a (a new one when a is fresh)
setField(objects, a, from, field, value) ==
    [x \in DOMAIN objects \cup {a} |->
        IF x = a
        THEN [k \in DOMAIN objects[from] \cup {field} |->
                 IF k = field THEN value ELSE objects[from][k]]
        ELSE objects[x]]

\* assignIds on objects: the objects after the call, and the address it
\* returns.
RECURSIVE assignIdsAt(_, _, _)
RECURSIVE mapChildren(_, _, _, _, _)
assignIdsAt(objects, a, currentId) ==
    LET node == objects[a]
        made == setField(objects, nodeWithId(a), a, "id", nodeIdOf(node, currentId))
    IN  IF hasChildren(node)
        THEN LET mapped == mapChildren(made, node.children, 1, currentId, <<>>)
             IN  [objects |-> setField(mapped.objects, nodeWithId(a), nodeWithId(a),
                                       "children", mapped.result),
                  result |-> nodeWithId(a)]
        ELSE [objects |-> made, result |-> nodeWithId(a)]

\* node.children.map((child, index) => assignIds(child, childId))
mapChildren(objects, children, i, currentId, acc) ==
    IF i > Len(children) THEN [objects |-> objects, result |-> acc]
    ELSE LET r == assignIdsAt(objects, children[i], childId(currentId, i - 1))
         IN  mapChildren(r.objects, children, i + 1, currentId,
                         Append(acc, r.result))

\* The tree handed in is fresh from the extractor, or was addressed before
\* under another root id.
StaleRoot == <<"7">>
heapInputs(t) ==
    {[before |-> objectsOf(input), objects |-> objectsOf(input),
      result |-> inputAt(<<>>), called |-> FALSE] :
        input \in {t, assignHierarchicalIds(t, StaleRoot)}}

(***************************************************************************)
(* Actions of tree addressing                                              *)
(***************************************************************************)
TreeIdle ==
    /\ tree = Null /\ tree2 = Null /\ parentId = <<>>
    /\ assigned = Null /\ assigned2 = Null
    /\ heap = Null
    /\ targetId = <<>> /\ found = Null /\ looked = FALSE

WinIdle ==
    /\ windows = <<>> /\ query = <<>> /\ scored = <<>> /\ matches = <<>>
    /\ best = Null /\ searched = FALSE

TreeInit ==
    /\ tree \in InputTrees
    /\ tree2 \in {t \in InputTrees : shapeOf(t) = shapeOf(tree)}
    /\ parentId \in ParentIds
    /\ heap \in heapInputs(tree)
    /\ assigned = Null /\ assigned2 = Null
    /\ targetId = <<>> /\ found = Null /\ looked = FALSE

\* assignHierarchicalIds on each of the two trees, and on the objects of
\* the first.
AssignIds ==
    /\ assigned = Null
    /\ assigned' = assignHierarchicalIds(tree, parentId)
    /\ assigned2' = assignHierarchicalIds(tree2, parentId)
    /\ LET r == assignIdsAt(heap.objects, inputAt(<<>>), rootId(parentId))
       IN  heap' = [heap EXCEPT !.objects = r.objects, !.result = r.result,
                                !.called = TRUE]
    /\ UNCHANGED <<tree, tree2, parentId, targetId, found, looked, winVars, extVars, coordVars, clickVars, actVars>>

\* findNodeById(assigned, id)
FindNode ==
    /\ assigned # Null
    /\ ~looked
    /\ \E id \in LookupIds(assigned) :
        /\ targetId' = id
        /\ found' = findNodeById(assigned, id)
    /\ looked' = TRUE
    /\ UNCHANGED <<tree, tree2, parentId, assigned, assigned2, heap, winVars, extVars, coordVars, clickVars, actVars>>

(***************************************************************************)
(* Extraction Session                                                      *)
(*                                                                         *)
(* An extraction request is a call of getAccessibilityTree (the one of     *)
(* inference.ts, or the older one of lib/index.ts that assigns no ids) or  *)
(* of getAccessibilityTreeById.  The extractor is an external process: its *)
(* exit status, its output and its error output are inputs.  Its standard  *)
(* output, once parsed, is text that is not JSON, the JSON value null, or  *)
(* an object whose fields error, needsPermission, availableWindows and     *)
(* a11y may each be there or not; an error field may be the empty string.  *)
(* Messages are sequences of text pieces, so that a template string is the *)
(* concatenation of its parts.                                             *)
(***************************************************************************)
FnTree == "getAccessibilityTree"
FnLib == "lib/index.getAccessibilityTree"
FnById == "getAccessibilityTreeById"
Fns == {FnTree, FnLib, FnById}

\* The other functions that run the extractor and read its output.
FnFocus == "focusWindowById"
FnList == "listAvailableWindows"
FnShotFull == "getFullDisplayScreenshot"
FnShotRect == "getDisplayScreenshotForRect"
\* clickElement's own run of the extractor: it reads no standard output.
FnClick == "clickElement"

NoText == [kind |-> "text", raw |-> ""]
Garbage == [kind |-> "text", raw |-> "not json"]
JsonNull == [kind |-> "null", raw |-> "null"]

ErrorTexts == {<<>>, <<"Window not found">>, <<"Accessibility permissions required">>}
WindowLists ==
    {<<>>,
     <<[title |-> "Inbox", app |-> "Mail"], [title |-> "Notes", app |-> "Notes"]>>,
     <<[title |-> "Notes", app |-> "Notes"], [title |-> "Inbox", app |-> "Mail"]>>}
BodyTrees ==
    {withRefs(t, <<>>) : t \in {[role |-> "AXWindow"],
        [role |-> "AXWindow", children |-> <<[role |-> "AXButton"]>>]}}

\* The object bodies: every combination of the four fields.
withField(recs, name, values) ==
    recs \cup {[k \in DOMAIN r \cup {name} |-> IF k = name THEN v ELSE r[k]] :
                  r \in recs, v \in values}

JsonObjects ==
    withField(withField(withField(withField(
        {[kind |-> "object", raw |-> "{json}"]},
        "error", ErrorTexts), "needsPermission", {TRUE}),
        "availableWindows", WindowLists), "a11y", BodyTrees)

Bodies == {NoText, Garbage, JsonNull} \cup JsonObjects
\* What a run of the extractor may write: focusWindowById's run reports
\* success.
outputsOf(fn) ==
    IF fn = FnFocus THEN withField(Bodies, "success", {"true", "false", "'true'"})
    ELSE Bodies

\* The text of an output reaches the parent in chunks: none for the empty
\* text, otherwise a first and a second part.  A chunk is named by the
\* output it is a part of.
chunksOf(body) ==
    IF body = NoText THEN <<>>
    ELSE <<[part |-> 1, of |-> body], [part |-> 2, of |-> body]>>
Truncated == [kind |-> "text", raw |-> "{js"]

\* Mutant: each chunk replaces what was collected.
collect_LastOnly(text, data) == <<data>>

\* stdout += data.toString()
collect(text, data) == Append(text, data)

\* JSON.parse(stdout), as far as the value or the failure goes: the two
\* parts of one output in order are that output; a part alone, or parts out
\* of order, are not JSON.
parse(text) ==
    IF text = <<>> THEN NoText
    ELSE IF Len(text) = 2 /\ text = chunksOf(text[1].of) THEN text[1].of
    ELSE Truncated
ExitCodes == {0, 1}
StderrTexts == {"", "stderr text"}

isObject(body) == body.kind = "object"
\* JSON.parse(stdout) throws
parseFails(body) == body.kind = "text"
\* obj.field is truthy: there, and neither the empty string nor false
truthy(body, field) ==
    /\ isObject(body)
    /\ field \in DOMAIN body
    /\ field = "error" => body[field] # <<>>
    /\ field = "needsPermission" => body[field] = TRUE

codeText(code) == IF code < 0 THEN "-" \o "errno" ELSE numberToString(code)[1]

\* new Error(`Process exited with code ${code}: ${stderr || stdout}`)
exitError(code, body, err) ==
    [message |-> <<"Process exited with code ", codeText(code), ": ",
                   IF err # "" THEN err ELSE body.raw>>]
\* new Error(`Failed to parse JSON output: ${error}`)
parseError == [message |-> <<"Failed to parse JSON output: ", "SyntaxError">>]
typeError == [message |-> <<"Failed to parse JSON output: ", "TypeError">>]
\* new Error(`Failed to execute accessibility extractor: ${error.message}`)
spawnError == [message |-> <<"Failed to execute accessibility extractor: ", "spawn">>]
\* new Error(`Failed to compile Swift file: ${error.message}`)
compileError == [message |-> <<"Failed to compile Swift file: ", "swiftc">>]
\* new Error(`Click command failed with code ${code}: ${stderr}`)
clickFailed(code, err) ==
    [message |-> <<"Click command failed with code ", codeText(code), ": ", err>>]
\* The error handler's rejection: clickElement has its own message.
startError(fn) ==
    IF fn = FnClick THEN [message |-> <<"Failed to execute click: ", "spawn">>]
    ELSE spawnError
\* new Error(errorObj.error)
bodyError(body) == [message |-> body.error]
RetryPrefix == "Still unable to access accessibility API: "
\* new Error(`Still unable to access accessibility API: ${retryError.message}`)
retryFailed(retryError) == [message |-> <<RetryPrefix>> \o retryError.message]

\* Mutant: the candidate list is left off the error.
notFoundError_NoList(body) == [message |-> body.error]

\* error.availableWindows = windowsError.availableWindows
notFoundError(body) ==
    [message |-> body.error, availableWindows |-> body.availableWindows]

\* Mutant: the redispatch keeps the caller's autoRetry.
retryAutoRetry_Inherited(autoRetry) == autoRetry

\* getAccessibilityTree(windowIdentifier, false)
retryAutoRetry(autoRetry) == FALSE

\* Mutant: no function assigns ids.
assignsIds_Never(fn) == FALSE

\* Which functions have the permission branch, and which assign ids.
hasPermissionBranch(fn) == fn \in {FnTree, FnLib}
assignsIds(fn) == fn \in {FnTree, FnById}

\* Mutant: the prompt is shown for any error while autoRetry is on.
wantsRetry_AnyError(fn, body, autoRetry) == hasPermissionBranch(fn) /\ autoRetry

\* errorObj.needsPermission && autoRetry
wantsRetry(fn, body, autoRetry) ==
    hasPermissionBranch(fn) /\ truthy(body, "needsPermission") /\ autoRetry

\* Mutant: a zero exit is taken as success whatever the body says.
zeroExitError_Ignored(body) == FALSE

\* if (tree.error)
zeroExitError(body) == truthy(body, "error")

\* if (tree.a11y) tree.a11y = assignHierarchicalIds(tree.a11y)
resolvedValue(fn, body) ==
    IF assignsIds(fn) /\ isObject(body) /\ "a11y" \in DOMAIN body
    THEN [body EXCEPT !.a11y = assignHierarchicalIds(body.a11y, <<>>)]
    ELSE body

\* The close handler: what it does with the exit status and the output.
\* A success field holds the JSON text of its value: true, false, or the
\* string 'true'.  focusWindowById resolves in every case, with a boolean; clickElement goes
\* by the exit status alone; only the extraction functions look for an error
\* in the output of a non-zero exit; listAvailableWindows resolves with
\* whatever a zero exit's output parses to.
onClose(fn, autoRetry, code, body, err) ==
    IF fn = FnFocus
    THEN [do |-> "resolve",
          value |-> [boolean |-> /\ code = 0
                                 /\ isObject(body)
                                 /\ "success" \in DOMAIN body
                                 /\ body.success = "true"]]
    ELSE
    IF fn = FnClick
    THEN IF code # 0 THEN [do |-> "reject", error |-> clickFailed(code, err)]
         ELSE [do |-> "resolve", value |-> Null]
    ELSE
    IF code # 0
    THEN IF fn \in Fns /\ truthy(body, "error")
         THEN IF wantsRetry(fn, body, autoRetry)
              THEN [do |-> "prompt"]
              ELSE IF "availableWindows" \in DOMAIN body
                   THEN [do |-> "reject", error |-> notFoundError(body)]
                   ELSE [do |-> "reject", error |-> bodyError(body)]
         ELSE [do |-> "reject", error |-> exitError(code, body, err)]
    ELSE IF parseFails(body) THEN [do |-> "reject", error |-> parseError]
         ELSE IF fn = FnList THEN [do |-> "resolve", value |-> body]
         ELSE IF ~isObject(body) THEN [do |-> "reject", error |-> typeError]
         ELSE IF zeroExitError(body)
              THEN [do |-> "reject", error |-> bodyError(body)]
              ELSE [do |-> "resolve", value |-> resolvedValue(fn, body)]

\* A call: its arguments, its child process, and its promise, which the
\* first resolve or reject settles.
newCall(fn, autoRetry, compiled) ==
    [fn |-> fn, autoRetry |-> autoRetry,
     child |-> IF compiled THEN "running" ELSE "none",
     code |-> 0, written |-> <<>>, data |-> <<>>, stdout |-> NoText, stderr |-> "",
     stage |-> IF compiled THEN "waiting" ELSE "done",
     settled |-> IF compiled THEN "pending" ELSE "rejected",
     value |-> Null,
     error |-> IF compiled THEN Null ELSE compileError]

resolveCall(call, value) ==
    IF call.settled = "pending"
    THEN [call EXCEPT !.settled = "resolved", !.value = value]
    ELSE call

rejectCall(call, error) ==
    IF call.settled = "pending"
    THEN [call EXCEPT !.settled = "rejected", !.error = error]
    ELSE call

ExtIdle == calls = <<>> /\ prompts = 0 /\ acks = 0 /\ dispatches = 0

\* The caller starts an extraction; autoRetry is true unless it says
\* otherwise.  The extractor is compiled if needed, then spawned; when the
\* compilation fails the call rejects and nothing is spawned.
Request ==
    /\ calls = <<>>
    /\ \E fn \in Fns, autoRetry \in BOOLEAN, compiled \in BOOLEAN :
        /\ calls' = <<newCall(fn, autoRetry, compiled)>>
        /\ dispatches' = IF compiled THEN dispatches + 1 ELSE dispatches
    /\ UNCHANGED <<prompts, acks, winVars, treeVars, coordVars, clickVars, actVars>>

\* The caller focuses a window, lists the windows, captures a display or
\* clicks a point.
RequestHelper ==
    /\ calls = <<>>
    /\ \E fn \in {FnFocus, FnList, FnShotFull, FnShotRect, FnClick}, compiled \in BOOLEAN :
        /\ calls' = <<newCall(fn, FALSE, compiled)>>
        /\ dispatches' = IF compiled THEN dispatches + 1 ELSE dispatches
    /\ UNCHANGED <<prompts, acks, winVars, treeVars, coordVars, clickVars, actVars>>

\* child.on("error"): the process could not be started; it has written
\* nothing.
ChildError ==
    /\ calls # <<>>
    /\ LET n == Len(calls) IN
        /\ calls[n].child = "running"
        /\ calls[n].written = <<>>
        /\ calls' = [calls EXCEPT
               ![n] = [rejectCall(calls[n], startError(calls[n].fn)) EXCEPT !.child = "failed"]]
    /\ UNCHANGED <<prompts, acks, dispatches, winVars, treeVars, coordVars, clickVars, actVars>>

\* child.stdout.on("data"): the child has written the next chunk of its
\* output, and the handler adds it to what it has collected.  written is
\* what the child has written so far.
ChildData ==
    /\ calls # <<>>
    /\ LET n == Len(calls) IN
        /\ calls[n].child = "running"
        /\ \E body \in outputsOf(calls[n].fn) :
            /\ Len(calls[n].written) < Len(chunksOf(body))
            /\ calls[n].written = SubSeq(chunksOf(body), 1, Len(calls[n].written))
            /\ LET chunk == chunksOf(body)[Len(calls[n].written) + 1] IN
                calls' = [calls EXCEPT
                    ![n].written = Append(calls[n].written, chunk),
                    ![n].data = IF calls[n].fn = FnClick THEN calls[n].data
                                ELSE collect(calls[n].data, chunk)]
    /\ UNCHANGED <<prompts, acks, dispatches, winVars, treeVars, coordVars, clickVars, actVars>>

\* child.on("close"): the process has ended and all it wrote is in; the
\* handler parses what it has collected.  A process that could not be
\* started closes with a negative status and no output.
ChildClose ==
    /\ calls # <<>>
    /\ LET n == Len(calls) IN
        /\ calls[n].child \in {"running", "failed"}
        /\ \E code \in ExitCodes \cup {-1}, err \in StderrTexts :
            /\ calls[n].child = "failed" <=> code = -1
            /\ code = -1 => err = ""
            /\ LET body == parse(calls[n].data)
                   closed == [calls[n] EXCEPT !.child = "closed", !.code = code,
                                              !.stdout = body, !.stderr = err]
                   outcome == onClose(closed.fn, closed.autoRetry, code, body, err)
               IN  /\ calls' = [calls EXCEPT ![n] =
                          CASE outcome.do = "prompt" ->
                                   [closed EXCEPT !.stage = "prompting"]
                            [] outcome.do = "reject" ->
                                   [rejectCall(closed, outcome.error)
                                       EXCEPT !.stage = "done"]
                            [] outcome.do = "resolve" ->
                                   [resolveCall(closed, outcome.value)
                                       EXCEPT !.stage = "done"]]
                   /\ prompts' = IF outcome.do = "prompt" THEN prompts + 1
                                 ELSE prompts
    /\ UNCHANGED <<acks, dispatches, winVars, treeVars, coordVars, clickVars, actVars>>

\* The user presses Enter at the prompt: waitForUserInput resolves and the
\* handler calls the function again.
UserAck ==
    /\ calls # <<>>
    /\ LET n == Len(calls) IN
        /\ calls[n].stage = "prompting"
        /\ \E compiled \in BOOLEAN :
            /\ calls' = Append([calls EXCEPT ![n].stage = "retrying"],
                   newCall(calls[n].fn, retryAutoRetry(calls[n].autoRetry), compiled))
            /\ dispatches' = IF compiled THEN dispatches + 1 ELSE dispatches
    /\ acks' = acks + 1
    /\ UNCHANGED <<prompts, winVars, treeVars, coordVars, clickVars, actVars>>

\* The redispatched call has settled: the handler that awaited it resolves
\* with its result or rejects with the wrapped error.
RetrySettled ==
    /\ Len(calls) >= 2
    /\ \E n \in 1..(Len(calls) - 1) :
        /\ calls[n].stage = "retrying"
        /\ calls[n + 1].settled # "pending"
        /\ calls' = [calls EXCEPT ![n] =
               [(IF calls[n + 1].settled = "resolved"
                 THEN resolveCall(calls[n], calls[n + 1].value)
                 ELSE rejectCall(calls[n], retryFailed(calls[n + 1].error)))
                   EXCEPT !.stage = "done"]]
    /\ UNCHANGED <<prompts, acks, dispatches, winVars, treeVars, coordVars, clickVars, actVars>>

(***************************************************************************)
(* Coordinate Mapper                                                       *)
(*                                                                         *)
(* JavaScript numbers are modelled exactly, as fractions n/d with d >= 0:  *)
(* d > 0 is a finite number in lowest terms, 1/0 and -1/0 are Infinity and *)
(* -Infinity, 0/0 is NaN.  Inputs are integers.  The rounding of floating  *)
(* point and the sign of zero are not modelled.                            *)
(***************************************************************************)
MaxCoord == 3
MaxSize == 2

abs(i) == IF i < 0 THEN -i ELSE i
sign(i) == IF i < 0 THEN -1 ELSE IF i > 0 THEN 1 ELSE 0

RECURSIVE gcd(_, _)
gcd(a, b) == IF b = 0 THEN a ELSE gcd(b, a % b)

\* the number n/d, d >= 0
number(n, d) ==
    IF d = 0 THEN [n |-> sign(n), d |-> 0]
    ELSE LET g == gcd(abs(n), d) IN [n |-> n \div g, d |-> d \div g]

fromInt(i) == number(i, 1)
NaN == number(0, 0)
isNaN(v) == v.n = 0 /\ v.d = 0

\* a / b on integers: a zero divisor gives Infinity, -Infinity or NaN
divide(a, b) == IF b < 0 THEN number(-a, -b) ELSE number(a, b)
\* i * v for an integer i: 0 * Infinity is NaN
times(i, v) == number(i * v.n, v.d)
\* a < b, false when either is NaN
lessThan(a, b) ==
    /\ ~isNaN(a) /\ ~isNaN(b)
    /\ IF a.d = 0 /\ b.d = 0 THEN a.n < b.n ELSE a.n * b.d < b.n * a.d

\* Math.min and Math.max: NaN when an argument is NaN
mathMin(a, b) == IF isNaN(a) \/ isNaN(b) THEN NaN ELSE IF lessThan(b, a) THEN b ELSE a
mathMax(a, b) == IF isNaN(a) \/ isNaN(b) THEN NaN ELSE IF lessThan(a, b) THEN b ELSE a

\* Mutant: no upper bound.
clamp_NoUpper(v, size) == mathMax(fromInt(0), v)

\* Math.max(0, Math.min(v, size))
clamp(v, size) == mathMax(fromInt(0), mathMin(v, fromInt(size)))

\* Mutant: the window origin is not subtracted.
windowRelative_Absolute(screen, origin) == screen

\* screenX - windowInfo.x
windowRelative(screen, origin) == screen - origin

normalizeCoordinatesToScreenshot(coords, info, shot) ==
    LET windowRelativeX == windowRelative(coords[1], info.x)
        windowRelativeY == windowRelative(coords[2], info.y)
        scaleX == divide(shot.width, info.width)
        scaleY == divide(shot.height, info.height)
        normalizedX == times(windowRelativeX, scaleX)
        normalizedY == times(windowRelativeY, scaleY)
        clampedX == clamp(normalizedX, shot.width)
        clampedY == clamp(normalizedY, shot.height)
    IN  <<clampedX, clampedY>>

normalizeSizeToScreenshot(size, info, shot) ==
    LET scaleX == divide(shot.width, info.width)
        scaleY == divide(shot.height, info.height)
        normalizedWidth == times(size[1], scaleX)
        normalizedHeight == times(size[2], scaleY)
    IN  <<normalizedWidth, normalizedHeight>>

normalizeScreenCoordinatesToFullScreenshot(coords, displayInfo, shot) ==
    LET displayRelativeX == coords[1] - displayInfo.x
        displayRelativeY == coords[2] - displayInfo.y
        scaleX == divide(shot.width, displayInfo.width)
        scaleY == divide(shot.height, displayInfo.height)
        normalizedX == times(displayRelativeX, scaleX)
        normalizedY == times(displayRelativeY, scaleY)
    IN  <<mathMax(fromInt(0), mathMin(normalizedX, fromInt(shot.width))),
          mathMax(fromInt(0), mathMin(normalizedY, fromInt(shot.height)))>>

\* Inputs: points around and inside the window, windows of positive, zero
\* and negative size, screenshots of positive size as getImageDimensions
\* returns them; and the case of a window at (100, 50) of 800 x 600 with a
\* screenshot of the same size.
ScenarioPoint == <<500, 300>>
ScenarioWindow == [x |-> 100, y |-> 50, width |-> 800, height |-> 600]
ScenarioShot == [width |-> 800, height |-> 600]
Points == ((-1)..MaxCoord) \X ((-1)..MaxCoord)
Windows == [x : 0..1, y : 0..1, width : (-1)..MaxSize, height : (-1)..MaxSize]
Screenshots == [width : 1..MaxSize, height : 1..MaxSize]

CoordIdle ==
    /\ screenCoords = <<0, 0>>
    /\ windowInfo = [x |-> 0, y |-> 0, width |-> 1, height |-> 1]
    /\ screenshotDimensions = [width |-> 1, height |-> 1]
    /\ normalized = <<>> /\ normalizedSize = <<>> /\ normalizedFull = <<>>

CoordInputs ==
    /\ \/ /\ screenCoords \in Points
          /\ windowInfo \in Windows
          /\ screenshotDimensions \in Screenshots
       \/ /\ screenCoords = ScenarioPoint
          /\ windowInfo = ScenarioWindow
          /\ screenshotDimensions = ScenarioShot
    /\ normalized = <<>> /\ normalizedSize = <<>> /\ normalizedFull = <<>>

Normalize ==
    /\ normalized = <<>>
    /\ normalized' = normalizeCoordinatesToScreenshot(
                         screenCoords, windowInfo, screenshotDimensions)
    /\ UNCHANGED <<screenCoords, windowInfo, screenshotDimensions,
                   normalizedSize, normalizedFull, winVars, treeVars, extVars, clickVars, actVars>>

\* The same pair of numbers taken as a size [width, height].
NormalizeSize ==
    /\ normalizedSize = <<>>
    /\ normalizedSize' = normalizeSizeToScreenshot(
                             screenCoords, windowInfo, screenshotDimensions)
    /\ UNCHANGED <<screenCoords, windowInfo, screenshotDimensions,
                   normalized, normalizedFull, winVars, treeVars, extVars, clickVars, actVars>>

\* The same rectangle taken as the display's, the screenshot as the full
\* display's.
NormalizeFull ==
    /\ normalizedFull = <<>>
    /\ normalizedFull' = normalizeScreenCoordinatesToFullScreenshot(
                             screenCoords, windowInfo, screenshotDimensions)
    /\ UNCHANGED <<screenCoords, windowInfo, screenshotDimensions,
                   normalized, normalizedSize, winVars, treeVars, extVars, clickVars, actVars>>

(***************************************************************************)
(* Click Action                                                            *)
(*                                                                         *)
(* click(nodeId, options) looks the node up in options.tree, draws the     *)
(* node's box on the window screenshot when one is given, captures the     *)
(* display and marks the click point on it, and then calls clickElement,   *)
(* which asks for the display once more and runs the extractor with        *)
(* --click-absolute.  What each of these outside steps answers is an       *)
(* input.  Positions and sizes are integers, so a centre is an integer or  *)
(* a half.                                                                 *)
(***************************************************************************)
\* The trees clicked in: a window with one button, the button with or
\* without position and size.
ClickTrees ==
    {assignHierarchicalIds(withRefs(
         [role |-> "AXWindow", position |-> <<0, 0>>, size |-> <<4, 4>>,
          children |-> <<button>>], <<>>), <<>>) :
       button \in withField(withField({[role |-> "AXButton"]},
                     "position", {<<0, 0>>, <<3, -1>>}),
                     "size", {<<1, 2>>, <<2, 0>>})}

\* Mutant: a position is enough.
clickable_PositionOnly(node) == "position" \in DOMAIN node

\* !targetNode.position || !targetNode.size
clickable(node) == "position" \in DOMAIN node /\ "size" \in DOMAIN node

\* position[0] + size[0] / 2, position[1] + size[1] / 2
centerOf(node) ==
    <<number(2 * node.position[1] + node.size[1], 2),
      number(2 * node.position[2] + node.size[2], 2)>>

\* String(x) for an integer or a half
stringOfNumber(v) ==
    (IF v.n < 0 THEN <<"-">> ELSE <<>>)
        \o numberToString(abs(v.n) \div v.d)
        \o (IF v.d = 2 THEN <<".", "5">> ELSE <<>>)

\* Mutant: the click point is made relative to the window.
clickPoint_WindowRelative(center, info) ==
    <<number(center[1].n - info.x * center[1].d, center[1].d),
      number(center[2].n - info.y * center[2].d, center[2].d)>>

\* let clickX = centerX; let clickY = centerY
clickPoint(center, info) == center

\* Mutant: the failure of a diagnostic step fails the call.
onDiagnosticFailure_Propagates(call, step, next) ==
    [call EXCEPT !.pc = "done", !.settled = "rejected", !.error = <<step>>]

\* catch (error) { console.warn(...) }: the call goes on with the next step
onDiagnosticFailure(call, step, next) ==
    [call EXCEPT !.pc = next, !.caught = Append(@, step)]

ran(cmd, args) == [cmd |-> cmd, args |-> args]

ClickIdle ==
    /\ clickCall = [pc |-> "idle"]
    /\ invoked = <<>>

\* click has been called: any tree, an id of a node or of none, a window
\* rectangle, with or without a window screenshot.
ClickCalled ==
    /\ clickCall \in
         [tree : ClickTrees,
          nodeId : {<<"1", ".">>, <<"1", ".", "1">>, <<"1", ".", "2">>},
          windowInfo : {[x |-> 0, y |-> 0, width |-> 4, height |-> 4],
                        [x |-> 1, y |-> 1, width |-> 2, height |-> 2]},
          screenshotPath : BOOLEAN,
          pc : {"called"}, target : {Null}, caught : {<<>>},
          settled : {"pending"}, error : {<<>>},
          compiled : {TRUE}, started : {TRUE}, code : {0}, stdout : {""}]
    /\ invoked = <<>>

\* click, up to its first await: the lookup and the two checks.
ClickLookup ==
    /\ clickCall.pc = "called"
    /\ LET targetNode == findNodeById(clickCall.tree, clickCall.nodeId)
       IN  clickCall' =
             IF targetNode = Null
             THEN [clickCall EXCEPT !.pc = "done", !.settled = "rejected",
                      !.error = <<"Node with id ">> \o clickCall.nodeId
                                  \o <<" not found in accessibility tree">>]
             ELSE IF ~clickable(targetNode)
             THEN [clickCall EXCEPT !.pc = "done", !.settled = "rejected",
                      !.target = targetNode,
                      !.error = <<"Node ">> \o clickCall.nodeId
                          \o <<" does not have position/size and cannot be clicked">>]
             ELSE [clickCall EXCEPT !.target = targetNode,
                      !.pc = IF clickCall.screenshotPath THEN "annotate"
                             ELSE "capture"]
    /\ UNCHANGED <<invoked, winVars, treeVars, extVars, coordVars, actVars>>

\* drawMultipleBoundingBoxes on the window screenshot; it may throw.
Annotate ==
    /\ clickCall.pc = "annotate"
    /\ invoked' = Append(invoked, ran("drawMultipleBoundingBoxes",
                      <<clickCall.target.ref, clickCall.windowInfo>>))
    /\ \E ok \in BOOLEAN :
        clickCall' = IF ok THEN [clickCall EXCEPT !.pc = "capture"]
                     ELSE onDiagnosticFailure(clickCall, "annotate", "capture")
    /\ UNCHANGED <<winVars, treeVars, extVars, coordVars, actVars>>

\* getDisplayScreenshotForRect, and when it gives a screenshot: Bun.write
\* and drawCircleAtScreenCoordinatesOnFullScreenshot at the centre, with the
\* display the capture reported.  Each may fail; computing the centre of a
\* node without position or size throws before the marker is drawn.
Capture ==
    /\ clickCall.pc = "capture"
    /\ \E result \in {"captureFails", "noScreenshot", "writeFails",
                      "markerFails", "marked"},
          display \in {[x |-> 0, y |-> 0, width |-> 4, height |-> 4],
                       [x |-> -4, y |-> 0, width |-> 4, height |-> 4]} :
        /\ result \in {"captureFails", "noScreenshot", "writeFails"}
               => display.x = 0
        /\ ~({"position", "size"} \subseteq DOMAIN clickCall.target)
               => result \in {"captureFails", "noScreenshot", "writeFails"}
        /\ invoked' = invoked
             \o <<ran("getDisplayScreenshotForRect", <<clickCall.windowInfo>>)>>
             \o (IF result \in {"writeFails", "markerFails", "marked"}
                 THEN <<ran("Bun.write", <<>>)>> ELSE <<>>)
             \o (IF result \in {"markerFails", "marked"}
                 THEN <<ran("drawCircleAtScreenCoordinatesOnFullScreenshot",
                            <<centerOf(clickCall.target), display>>)>>
                 ELSE <<>>)
        /\ clickCall' =
             IF result \in {"noScreenshot", "marked"}
             THEN [clickCall EXCEPT !.pc = "display"]
             ELSE onDiagnosticFailure(clickCall, "capture", "display")
    /\ UNCHANGED <<winVars, treeVars, extVars, coordVars, actVars>>

\* clickElement(targetNode, windowInfo), up to the click command: its own
\* check, and getDisplayScreenshotForRect for the log, whose failure is
\* caught.
DisplayInfo ==
    /\ clickCall.pc = "display"
    /\ IF ~({"position", "size"} \subseteq DOMAIN clickCall.target)
       THEN /\ clickCall' = [clickCall EXCEPT !.pc = "done",
                   !.settled = "rejected",
                   !.error = <<"Element must have position and size to be clickable">>]
            /\ UNCHANGED invoked
       ELSE /\ invoked' = Append(invoked,
                   ran("getDisplayScreenshotForRect", <<clickCall.windowInfo>>))
            /\ \E ok \in BOOLEAN :
                clickCall' = IF ok THEN [clickCall EXCEPT !.pc = "command"]
                             ELSE onDiagnosticFailure(clickCall, "display", "command")
    /\ UNCHANGED <<winVars, treeVars, extVars, coordVars, actVars>>

\* The rest of clickElement: compileSwiftIfNeeded, the extractor run with
\* --click-absolute x y, and the settlement on its error or close event;
\* click resolves or rejects with it.
ClickCommand ==
    /\ clickCall.pc = "command"
    /\ \E compiled \in BOOLEAN, started \in BOOLEAN, code \in ExitCodes,
          body \in {"", "{\"success\": true}", "{\"success\": false}", "not json"} :
        /\ (~compiled \/ ~started) => (code = 1 /\ body = "")
        /\ ~compiled => started
        /\ LET point == clickPoint(centerOf(clickCall.target), clickCall.windowInfo)
               done == [clickCall EXCEPT !.pc = "done", !.compiled = compiled,
                           !.started = started, !.code = code, !.stdout = body]
           IN  /\ invoked' =
                     IF compiled
                     THEN Append(invoked, ran("--click-absolute",
                              <<stringOfNumber(point[1]), stringOfNumber(point[2])>>))
                     ELSE invoked
               /\ clickCall' =
                     IF ~compiled
                     THEN [done EXCEPT !.settled = "rejected",
                              !.error = compileError.message]
                     ELSE IF ~started
                     THEN [done EXCEPT !.settled = "rejected",
                              !.error = <<"Failed to execute click: ", "spawn">>]
                     ELSE IF code # 0
                     THEN [done EXCEPT !.settled = "rejected",
                              !.error = <<"Click command failed with code ",
                                          codeText(code), ": ", "stderr">>]
                     ELSE [done EXCEPT !.settled = "resolved"]
    /\ UNCHANGED <<winVars, treeVars, extVars, coordVars, actVars>>

(***************************************************************************)
(* act                                                                     *)
(*                                                                         *)
(* act(prompt, model) lists the windows, asks the model for a method and   *)
(* a window id, focuses the window, extracts its tree by id, asks the      *)
(* model for a node id and clicks the node.  What the model and the        *)
(* extractor answer are inputs.  Every failure after the choice ends the   *)
(* process; act logs what it runs in invoked, like click.                  *)
(***************************************************************************)
ActIdle == actCall = [pc |-> "idle"]

ActCalled ==
    /\ actCall = [pc |-> "called", focusSuccess |-> "none", result |-> Null,
                  nodeId |-> <<>>]
    /\ ClickIdle

\* listAvailableWindows and generateObject, both outside the try: when
\* either fails act rejects.
ActChoose ==
    /\ actCall.pc = "called"
    /\ invoked' = Append(invoked, ran("--list", <<>>))
    /\ \E ok \in BOOLEAN :
        actCall' = [actCall EXCEPT !.pc = IF ok THEN "focus" ELSE "rejected"]
    /\ UNCHANGED <<clickCall, winVars, treeVars, extVars, coordVars>>

\* Mutant: a window that could not be focused ends the call.
afterFocus_NeedsFocus(focusSuccess) ==
    IF focusSuccess = "true" THEN "extract" ELSE "exited"

\* if (focusSuccess) {log} else {log "continuing anyway"}; a rejection goes
\* to the catch, which exits.
afterFocus(focusSuccess) ==
    IF focusSuccess = "rejected" THEN "exited" ELSE "extract"

\* const focusSuccess = await focusWindow(windowId)
ActFocus ==
    /\ actCall.pc = "focus"
    /\ invoked' = Append(invoked, ran("--focus-id", <<"windowId">>))
    /\ \E focusSuccess \in {"true", "false", "rejected"} :
        actCall' = [actCall EXCEPT !.focusSuccess = focusSuccess,
                                   !.pc = afterFocus(focusSuccess)]
    /\ UNCHANGED <<clickCall, winVars, treeVars, extVars, coordVars>>

\* const result = await getAccessibilityTreeById(windowId), then the files
\* written when debug is on; a rejection or a failed write goes to the
\* catch.
ActExtract ==
    /\ actCall.pc = "extract"
    /\ invoked' = Append(invoked, ran("--window-id", <<"windowId">>))
    /\ \/ actCall' = [actCall EXCEPT !.pc = "exited"]
       \/ \E result \in [a11y : ClickTrees,
                          window : {[x |-> 0, y |-> 0, width |-> 4, height |-> 4],
                                    [x |-> 1, y |-> 1, width |-> 2, height |-> 2]},
                          screenshot : BOOLEAN],
             saved \in BOOLEAN :
            actCall' = [actCall EXCEPT !.result = result,
                           !.pc = IF saved THEN "find" ELSE "exited"]
    /\ UNCHANGED <<clickCall, winVars, treeVars, extVars, coordVars>>

\* actClick: findElement gives a node id or null (also for "" and when the
\* model fails); with a node id, click is called with the tree, the window
\* and the screenshot file of the result.
ActFind ==
    /\ actCall.pc = "find"
    /\ invoked' = Append(invoked, ran("findElement", <<>>))
    /\ \E nodeId \in {<<>>, <<"1", ".">>, <<"1", ".", "1">>, <<"1", ".", "2">>} :
        /\ actCall' = [actCall EXCEPT !.nodeId = nodeId,
                           !.pc = IF nodeId # <<>> THEN "click" ELSE "returned"]
        /\ clickCall' =
              IF nodeId # <<>>
              THEN [tree |-> actCall.result.a11y, nodeId |-> nodeId,
                    windowInfo |-> actCall.result.window,
                    screenshotPath |-> actCall.result.screenshot,
                    pc |-> "called", target |-> Null, caught |-> <<>>,
                    settled |-> "pending", error |-> <<>>,
                    compiled |-> TRUE, started |-> TRUE, code |-> 0,
                    stdout |-> ""]
              ELSE clickCall
    /\ UNCHANGED <<winVars, treeVars, extVars, coordVars>>

\* await click(...) has settled: act returns, or the catch exits.
ActReturn ==
    /\ actCall.pc = "click"
    /\ clickCall.pc = "done"
    /\ actCall' = [actCall EXCEPT
           !.pc = IF clickCall.settled = "resolved" THEN "returned" ELSE "exited"]
    /\ UNCHANGED <<clickVars, winVars, treeVars, extVars, coordVars>>

(***************************************************************************)
(* Inputs of the window resolver                                           *)
(***************************************************************************)
mkWindow(a, t) == [app |-> a, title |-> t]
mkWindowId(a, t, i) == [app |-> a, title |-> t, id |-> i]

\* The ranking specification: lists of up to MaxWindows windows of a pool in
\* which ids repeat, are absent, are supplied in lower case ("ab-ab", also
\* the id synthesized for app "ab", title "ab") and in upper case ("B-bac").
RankApps == {Str(<<"a", "b">>), Str(<<"B">>)}
RankTitles == {Str(<<"a", "b">>), Str(<<"b", "-", "a", " ", "c">>)}
RankIds == {Str(<<"a", "b", "-", "a", "b">>), Str(<<"B", "-", "b", "a", "c">>)}
RankPool ==
    {mkWindow(a, t) : a \in RankApps, t \in RankTitles}
    \cup {mkWindowId(a, Str(<<"a", "b">>), i) : a \in RankApps, i \in RankIds}

RECURSIVE ListsUpTo(_, _)
ListsUpTo(S, n) ==
    IF n = 0 THEN {<<>>}
    ELSE LET shorter == ListsUpTo(S, n - 1)
         IN  shorter \cup {Append(l, x) : l \in shorter, x \in S}

\* The scoring specification: one window, every title, application name
\* and supplied id up to the bounds.
TitleChars == {"a", "B", " "}
AppChars == {"a", "B"}
IdChars == {"a", "b"}
ScorePool ==
    LET titles == StrUpTo(TitleChars, MaxTitleLen)
        apps == StrUpTo(AppChars, MaxAppLen)
        ids == StrUpTo(IdChars, MaxIdLen)
    IN  {mkWindow(a, t) : a \in apps, t \in titles}
        \cup {mkWindowId(a, t, i) : a \in apps, t \in titles, i \in ids}

\* The id specification: one window whose application name and title are
\* shorter than, as long as and longer than what an id keeps of them, with
\* upper case, spaces and punctuation, or with nothing an id keeps; its id
\* is absent, empty or supplied.
IdPool ==
    LET apps == {Str(<<" ">>), Str(<<"a", "B">>),
                 Str(<<"a", "b", "c", "x", "y", "0", "1", "2", "3", "4">>),
                 Str(<<"A", " ", "b", "-", "c", "0", "1", "2", "3", "4", "5",
                       "6", "X", "y">>)}
        titles == {Str(<<"-", " ", ".">>),
                   Str(<<"C", "a", "b", " ", "x", ".", "y", "0", "1", "2", "3",
                         "4", "5", "6", "7", "8", "9", "A", "b", "c">>)}
        ids == {<<>>, Str(<<"M", "y", "-", "1">>)}
    IN  {mkWindow(a, t) : a \in apps, t \in titles}
        \cup {mkWindowId(a, t, i) : a \in apps, t \in titles, i \in ids}

Substrings(s) ==
    {SubSeq(s, i, j) : i \in 1..(Len(s) + 1), j \in 0..Len(s)}

BaseQueries == {Str(<<"b">>), Str(<<"a", " ", "b">>), Str(<<"b", "c", "x">>)}

\* The queries tried against a window list: the windows' ids, titles and
\* application names, the substrings of their titles, and a few free texts.
Queries(ws) ==
    BaseQueries
    \cup UNION {Substrings(ws[i].title) : i \in 1..Len(ws)}
    \cup {ws[i].app : i \in 1..Len(ws)}
    \cup {windowsWithIds(ws)[i].id : i \in 1..Len(ws)}

(***************************************************************************)
(* Actions of the window resolver                                          *)
(***************************************************************************)
WinInit(start) ==
    /\ windows \in start
    /\ query = <<>>
    /\ scored = <<>>
    /\ matches = <<>>
    /\ best = Null
    /\ searched = FALSE

\* A call of findBestWindow(q, windows), which calls searchWindows(q, windows).
Search ==
    /\ ~searched
    /\ \E q \in Queries(windows) :
        /\ query' = q
        /\ scored' = scoreAll(q, windows)
        /\ matches' = searchWindows(q, windows)
        /\ best' = findBestWindow(q, windows)
        /\ searched' = TRUE
        /\ UNCHANGED <<windows, treeVars, extVars, coordVars, clickVars, actVars>>

Init == WinInit(ListsUpTo(RankPool, MaxWindows)) /\ TreeIdle /\ ExtIdle /\ CoordIdle /\ ClickIdle /\ ActIdle

Next == Search

Spec == Init /\ [][Next]_vars

ScoreInit == WinInit({<<w>> : w \in ScorePool}) /\ TreeIdle /\ ExtIdle /\ CoordIdle /\ ClickIdle /\ ActIdle

ScoreNext == Search

SpecScore == ScoreInit /\ [][ScoreNext]_vars

IdsInit == WinInit({<<w>> : w \in IdPool}) /\ TreeIdle /\ ExtIdle /\ CoordIdle /\ ClickIdle /\ ActIdle

SpecIds == IdsInit /\ [][ScoreNext]_vars

TreeSpecInit == TreeInit /\ WinIdle /\ ExtIdle /\ CoordIdle /\ ClickIdle /\ ActIdle

TreeNext == AssignIds \/ FindNode

SpecTree == TreeSpecInit /\ [][TreeNext]_vars

ExtInit == ExtIdle /\ WinIdle /\ TreeIdle /\ CoordIdle /\ ClickIdle /\ ActIdle

ExtNext == Request \/ ChildData \/ ChildError \/ ChildClose \/ UserAck \/ RetrySettled

SpecExtract == ExtInit /\ [][ExtNext]_vars

HelperNext == RequestHelper \/ ChildData \/ ChildError \/ ChildClose

SpecHelper == ExtInit /\ [][HelperNext]_vars

\* Every operation that runs the extractor.  The handler that awaits the
\* redispatched call runs as soon as that call has settled.
SettleNext == ExtNext \/ RequestHelper

SpecSettle == ExtInit /\ [][SettleNext]_vars /\ WF_vars(RetrySettled)

CoordInit == CoordInputs /\ WinIdle /\ TreeIdle /\ ExtIdle /\ ClickIdle /\ ActIdle

CoordNext == Normalize \/ NormalizeSize \/ NormalizeFull

SpecCoord == CoordInit /\ [][CoordNext]_vars

ClickInit == ClickCalled /\ WinIdle /\ TreeIdle /\ ExtIdle /\ CoordIdle /\ ActIdle

ClickNext == ClickLookup \/ Annotate \/ Capture \/ DisplayInfo \/ ClickCommand

SpecClick == ClickInit /\ [][ClickNext]_vars

ActInit == ActCalled /\ WinIdle /\ TreeIdle /\ ExtIdle /\ CoordIdle

ActNext == ActChoose \/ ActFocus \/ ActExtract \/ ActFind \/ ClickNext \/ ActReturn

SpecAct == ActInit /\ [][ActNext]_vars

(***************************************************************************)
(* Claims about the window resolver                                        *)
(***************************************************************************)
withIds == windowsWithIds(windows)
scoreOf(i) == calculateWindowSimilarity(query, withIds[i])
Positions == 1..Len(windows)
isLowerCase(s) == toLowerCase(s) = s
hasWhitespace(s) == \E k \in 1..Len(s) : s[k] \in WhiteSpace
isStrictSubstring(s, t) == s \in Substrings(t) /\ s # t
placeOf(i) == CHOOSE k \in 1..Len(matches) : matches[k].ref = i

C7_TitleScoresAtLeastSubstring ==
    searched =>
        \A i \in Positions :
            isStrictSubstring(query, windows[i].title) =>
                calculateWindowSimilarity(windows[i].title, withIds[i])
                    >= scored[i].score

\* The substrings for which the amended C7 speaks: no whitespace in s, s not
\* contained in the application name (compared in lower case), and the
\* window's id equal neither to s nor to the title in lower case.
C7_Covered(i) ==
    /\ isStrictSubstring(query, windows[i].title)
    /\ ~hasWhitespace(query)
    /\ ~includes(toLowerCase(windows[i].app), toLowerCase(query))
    /\ withIds[i].id # toLowerCase(query)
    /\ withIds[i].id # toLowerCase(windows[i].title)

\* C7 amended: the full title scores at least as high as a strict
\* substring s of it, for every s without whitespace that is not contained
\* in the application name, when the window's id is neither s nor the title
\* (all compared in lower case).
C7_TitleScoresAtLeastPlainSubstring ==
    searched =>
        \A i \in Positions :
            C7_Covered(i) =>
                calculateWindowSimilarity(windows[i].title, withIds[i])
                    >= scored[i].score

\* C7 witness: a covered substring of two or more characters was scored,
\* against a window whose title has several words and that carries a
\* supplied id, and the fuzzy part contributed to its score.
C7_Witness ==
    /\ searched
    /\ Len(windows) = 1
    /\ C7_Covered(1)
    /\ Len(query) >= MinWordLen
    /\ hasWhitespace(windows[1].title)
    /\ hasId(windows[1])
    /\ scored[1].score > CombinedScore + ContainsScore

\* C8: searchWindows returns exactly the windows scoring above 0, each
\* once, by non-increasing score, equal scores in input order;
\* findBestWindow returns the first of them, or null when there is none.
C8_RankedPositiveStable ==
    searched =>
        /\ \A k \in 1..Len(matches) :
               /\ matches[k].ref \in Positions
               /\ matches[k] = withIds[matches[k].ref]
               /\ scoreOf(matches[k].ref) > 0
        /\ \A i \in Positions :
               scoreOf(i) > 0 =>
                   Cardinality({k \in 1..Len(matches) : matches[k].ref = i}) = 1
        /\ \A k, l \in 1..Len(matches) :
               k < l =>
                   /\ scoreOf(matches[k].ref) >= scoreOf(matches[l].ref)
                   /\ scoreOf(matches[k].ref) = scoreOf(matches[l].ref)
                          => matches[k].ref < matches[l].ref
        /\ best = (IF Len(matches) > 0 THEN matches[1] ELSE Null)

\* C8 witness: three windows all score above 0, the second and the third
\* tie and outscore the first; the result is second, third, first.
C8_Witness ==
    /\ searched
    /\ Len(windows) = 3
    /\ scoreOf(1) > 0 /\ scoreOf(1) < scoreOf(2)
    /\ scoreOf(2) = scoreOf(3)
    /\ Len(matches) = 3
    /\ matches[1].ref = 2 /\ matches[2].ref = 3 /\ matches[3].ref = 1

\* No window scores above 0 and findBestWindow returned null, without throwing.
C8_NoneFound ==
    /\ searched
    /\ Len(windows) > 0
    /\ matches = <<>>
    /\ best = Null

(***************************************************************************)
(* Claims about tree addressing                                            *)
(***************************************************************************)
endsWithDot(id) == Len(id) > 0 /\ id[Len(id)] = "."

\* The sibling numbers 1..10 written out, and the id the addressing scheme
\* gives the node at a path under the root prefix "1".
decimalOf(k) ==
    <<<<"1">>, <<"2">>, <<"3">>, <<"4">>, <<"5">>, <<"6">>, <<"7">>, <<"8">>,
      <<"9">>, <<"1", "0">>>>[k]

RECURSIVE dottedPath(_)
dottedPath(path) ==
    IF path = <<>> THEN <<>>
    ELSE dottedPath(SubSeq(path, 1, Len(path) - 1))
             \o <<".">> \o decimalOf(path[Len(path)])

\* C2: two trees of identical shape get identical identifiers at every
\* position, and within one assigned tree no two distinct nodes carry the
\* same identifier.
C2_DeterministicInjective ==
    assigned # Null =>
        /\ {n.ref : n \in nodesOf(assigned)} = {n.ref : n \in nodesOf(assigned2)}
        /\ \A a \in nodesOf(assigned), b \in nodesOf(assigned2) :
               a.ref = b.ref => a.id = b.id
        /\ \A a, b \in nodesOf(assigned) : a.id = b.id => a.ref = b.ref

\* C2 witness: two different trees of one shape, with siblings and a
\* grandchild, have been assigned.
C2_Witness ==
    /\ assigned # Null
    /\ tree # tree2
    /\ Cardinality(nodesOf(assigned)) = 4
    /\ hasChildren(tree)
    /\ Len(tree.children) = 2
    /\ \E n \in nodesOf(assigned) : Len(n.ref) = 2

\* C3: for every node n of the assigned tree, findNodeById with n's id
\* returns n itself; for an id carried by no node it returns null.
C3_FindReturnsTheNode ==
    looked =>
        /\ \A n \in nodesOf(assigned) : n.id = targetId => found = n
        /\ (\A n \in nodesOf(assigned) : n.id # targetId) => found = Null

\* C3 witness: the node looked up and returned is a second child, below
\* the root, behind a sibling that has children of its own.
C3_Witness ==
    /\ looked
    /\ found # Null
    /\ found.id = targetId
    /\ found.ref = <<2>>
    /\ hasChildren(assigned)
    /\ hasChildren(assigned.children[1])

\* An id carried by no node of the tree was looked up; null came back.
C3_AbsentIdReached ==
    /\ looked
    /\ targetId # <<>>
    /\ \A n \in nodesOf(assigned) : n.id # targetId
    /\ found = Null

\* C9: with the default root prefix "1", the node at sibling path
\* k1, ..., kn has prefix "1.k1. ... .kn", and its id is that prefix
\* followed by "." when it has at least one child and exactly that prefix
\* when it has none (children absent or empty); an id ends with "." if and
\* only if its node has at least one child.
C9_PrefixAndTrailingDot ==
    (assigned # Null /\ parentId = <<>>) =>
        \A n \in nodesOf(assigned) :
            /\ n.id = <<"1">> \o dottedPath(n.ref)
                        \o (IF hasChildren(n) THEN <<".">> ELSE <<>>)
            /\ endsWithDot(n.id) <=> hasChildren(n)

\* C9 witness: a root with one leaf child yields "1." and "1.1"; the same
\* holds with the leaf's children list empty instead of absent.
C9_Witness ==
    /\ assigned # Null /\ parentId = <<>>
    /\ hasChildren(tree)
    /\ Len(tree.children) = 1
    /\ ~hasChildren(tree.children[1])
    /\ "children" \in DOMAIN tree.children[1]
    /\ assigned.id = <<"1", ".">>
    /\ assigned.children[1].id = <<"1", ".", "1">>

(***************************************************************************)
(* Claims about the extraction session                                     *)
(***************************************************************************)
\* The call closed with a non-zero status and a body naming an error and
\* needsPermission while autoRetry was on.
permissionNeeded(call) ==
    /\ call.child = "closed"
    /\ call.code # 0
    /\ truthy(call.stdout, "error")
    /\ truthy(call.stdout, "needsPermission")
    /\ call.autoRetry

isGetAccessibilityTree(call) == call.fn \in {FnTree, FnLib}

\* C4: in getAccessibilityTree a non-zero exit with a body that has an error
\* and needsPermission, with autoRetry on, leads to a prompt and, only once
\* the user has acknowledged it, to exactly one further call with autoRetry
\* off.  A request has at most one prompt and at most two dispatches; no
\* other outcome leads to a further call; and when the further call fails
\* the request rejects with "Still unable to access accessibility API: "
\* followed by the retry's message, which differs from the original error.
C4_PermissionRetryOnce ==
    (calls # <<>> /\ isGetAccessibilityTree(calls[1])) =>
        /\ prompts <= 1 /\ dispatches <= 2 /\ Len(calls) <= 2
        /\ acks <= prompts
        /\ Len(calls) = acks + 1
        /\ prompts = (IF permissionNeeded(calls[1]) THEN 1 ELSE 0)
        /\ permissionNeeded(calls[1]) =>
               /\ calls[1].stage \in {"prompting", "retrying", "done"}
               /\ calls[1].stage = "prompting" <=> acks = 0
               /\ calls[1].stage # "done" => calls[1].settled = "pending"
        /\ Len(calls) = 2 =>
               /\ permissionNeeded(calls[1])
               /\ calls[2].fn = calls[1].fn
               /\ calls[2].autoRetry = FALSE
               /\ calls[1].stage = "done" =>
                      /\ calls[2].settled # "pending"
                      /\ calls[2].settled = "resolved" =>
                             /\ calls[1].settled = "resolved"
                             /\ calls[1].value = calls[2].value
                      /\ calls[2].settled = "rejected" =>
                             /\ calls[1].settled = "rejected"
                             /\ calls[1].error.message =
                                    <<RetryPrefix>> \o calls[2].error.message
                             /\ calls[1].error.message # calls[1].stdout.error

\* C4 witness: the permission retry was taken, the second call also ended
\* on a permission error, and the request rejected with the wrapped message.
C4_Witness ==
    /\ Len(calls) = 2
    /\ isGetAccessibilityTree(calls[1])
    /\ prompts = 1 /\ acks = 1 /\ dispatches = 2
    /\ calls[1].stage = "done" /\ calls[1].settled = "rejected"
    /\ calls[2].child = "closed" /\ calls[2].code # 0
    /\ truthy(calls[2].stdout, "needsPermission")
    /\ truthy(calls[2].stdout, "error")
    /\ calls[1].error.message = <<RetryPrefix>> \o calls[2].stdout.error

\* The permission retry succeeds: the request resolves with the tree of the
\* second call.
C4_RetrySucceeds ==
    /\ Len(calls) = 2
    /\ calls[1].stage = "done" /\ calls[1].settled = "resolved"
    /\ "a11y" \in DOMAIN calls[1].value

\* The call closed with a non-zero status and a body carrying an error and
\* a list of windows, and did not take the permission retry.
notFoundCase(call) ==
    /\ call.child = "closed"
    /\ call.code # 0
    /\ truthy(call.stdout, "error")
    /\ "availableWindows" \in DOMAIN call.stdout
    /\ ~wantsRetry(call.fn, call.stdout, call.autoRetry)

\* C5: when the extractor exits non-zero with a body carrying an error and
\* an availableWindows list, and the permission retry is not taken, the call
\* rejects with an error whose message is the body's error and whose
\* availableWindows is the body's list, same content and same order.
C5_NotFoundCarriesList ==
    \A n \in DOMAIN calls :
        notFoundCase(calls[n]) =>
            /\ calls[n].settled = "rejected"
            /\ calls[n].error.message = calls[n].stdout.error
            /\ "availableWindows" \in DOMAIN calls[n].error
            /\ calls[n].error.availableWindows = calls[n].stdout.availableWindows

\* C5 witness: a call rejected with a list of two windows.
C5_Witness ==
    \E n \in DOMAIN calls :
        /\ notFoundCase(calls[n])
        /\ Len(calls[n].stdout.availableWindows) = 2
        /\ calls[n].settled = "rejected"
        /\ "availableWindows" \in DOMAIN calls[n].error
        /\ Len(calls[n].error.availableWindows) = 2

zeroExit(call) == call.child = "closed" /\ call.code = 0

C6_GarbageReached ==
    \E n \in DOMAIN calls :
        /\ zeroExit(calls[n])
        /\ calls[n].stdout = Garbage
        /\ calls[n].settled = "rejected"

(***************************************************************************)
(* Claims about the coordinate mapper                                      *)
(***************************************************************************)
\* (point - origin) * (shot / size) clamped to [0, shot], for size > 0, as
\* numerator over the denominator size.
expectedNumerator(point, origin, size, shot) ==
    LET n == (point - origin) * shot
    IN  IF n < 0 THEN 0 ELSE IF n > shot * size THEN shot * size ELSE n

isFraction(v, n, d) == v.d > 0 /\ v.n * d = n * v.d

withinShot(v, shot) == v.d > 0 /\ 0 <= v.n /\ v.n <= shot * v.d

\* C10: normalizeCoordinatesToScreenshot returns on each axis, from that
\* axis's inputs alone, (point - window origin) * (screenshot size / window
\* size) clamped to [0, screenshot size]; for a window of positive size the
\* result is within [0, screenshot size] on both axes; and the window
\* {x: 100, y: 50, width: 800, height: 600} with an 800 x 600 screenshot
\* maps [500, 300] to [400, 250].
C10_ScaledAndClamped ==
    normalized # <<>> =>
        /\ windowInfo.width > 0 =>
               /\ isFraction(normalized[1],
                      expectedNumerator(screenCoords[1], windowInfo.x,
                          windowInfo.width, screenshotDimensions.width),
                      windowInfo.width)
               /\ withinShot(normalized[1], screenshotDimensions.width)
        /\ windowInfo.height > 0 =>
               /\ isFraction(normalized[2],
                      expectedNumerator(screenCoords[2], windowInfo.y,
                          windowInfo.height, screenshotDimensions.height),
                      windowInfo.height)
               /\ withinShot(normalized[2], screenshotDimensions.height)
        /\ (/\ screenCoords = ScenarioPoint
            /\ windowInfo = ScenarioWindow
            /\ screenshotDimensions = ScenarioShot)
           => normalized = <<fromInt(400), fromInt(250)>>

\* C10 witness: the 800 x 600 case has been computed and gave [400, 250].
C10_Witness ==
    /\ screenCoords = ScenarioPoint
    /\ windowInfo = ScenarioWindow
    /\ screenshotDimensions = ScenarioShot
    /\ normalized = <<[n |-> 400, d |-> 1], [n |-> 250, d |-> 1]>>

\* Both ends of the clamp and a fractional value in between are reached.
C10_ClampReached ==
    /\ normalized # <<>>
    /\ windowInfo.width > 0 /\ windowInfo.height > 0
    /\ screenCoords[1] < windowInfo.x
    /\ normalized[1] = fromInt(0)
    /\ screenCoords[2] > windowInfo.y + windowInfo.height
    /\ normalized[2] = fromInt(screenshotDimensions.height)

C10_FractionReached ==
    /\ normalized # <<>>
    /\ normalized[1].d = 2
    /\ normalized[1].n = 1

\* The inverse of the mapping on one axis: divide by the scale, add the
\* window origin.
inverseAxis(v, scale, origin) ==
    number(v.n * scale.d + origin * (v.d * scale.n), v.d * scale.n)

withinWindow(point, origin, size) ==
    size > 0 /\ origin <= point /\ point <= origin + size

\* C11: for a point within the window bounds, with positive window and
\* screenshot sizes, normalizeCoordinatesToScreenshot followed by the inverse
\* scale-and-translate gives the point back, and the clamp leaves the scaled
\* value as it is.
C11_RoundTripWithinWindow ==
    (/\ normalized # <<>>
     /\ withinWindow(screenCoords[1], windowInfo.x, windowInfo.width)
     /\ withinWindow(screenCoords[2], windowInfo.y, windowInfo.height))
    => LET scaleX == divide(screenshotDimensions.width, windowInfo.width)
           scaleY == divide(screenshotDimensions.height, windowInfo.height)
       IN  /\ inverseAxis(normalized[1], scaleX, windowInfo.x)
                  = fromInt(screenCoords[1])
           /\ inverseAxis(normalized[2], scaleY, windowInfo.y)
                  = fromInt(screenCoords[2])
           /\ normalized[1] = times(screenCoords[1] - windowInfo.x, scaleX)
           /\ normalized[2] = times(screenCoords[2] - windowInfo.y, scaleY)

\* C11 witness: a point on the far edge of a window that is not at the
\* origin, on one axis, and inside it on the other, mapped with a scale
\* that is not 1.
C11_Witness ==
    /\ normalized # <<>>
    /\ windowInfo.x = 1 /\ windowInfo.width = 2
    /\ screenCoords[1] = 3
    /\ screenshotDimensions.width = 1
    /\ normalized[1] = fromInt(1)
    /\ windowInfo.y = 1 /\ windowInfo.height = 2
    /\ screenCoords[2] = 2
    /\ screenshotDimensions.height = 1
    /\ normalized[2] = number(1, 2)

(***************************************************************************)
(* Claims about focusing, listing and capturing                            *)
(***************************************************************************)
focusSucceeded(call) ==
    /\ call.child = "closed"
    /\ call.code = 0
    /\ isObject(call.stdout)
    /\ "success" \in DOMAIN call.stdout
    /\ call.stdout.success = "true"

\* C12: focusWindowById never rejects: on a non-zero exit, on output that
\* does not parse, on a body whose success is not true, and when the child
\* process cannot be started or run, it resolves to false; it resolves to
\* true only for exit status 0 with a body whose success is exactly true.
C12_FocusNeverRejects ==
    \A n \in DOMAIN calls :
        calls[n].fn = FnFocus =>
            /\ calls[n].settled # "rejected"
            /\ calls[n].child # "running" => calls[n].settled = "resolved"
            /\ calls[n].settled = "resolved" =>
                   calls[n].value = [boolean |-> focusSucceeded(calls[n])]

\* What does hold of focusing: once the child has closed without a start
\* failure, the call has resolved, to true exactly for exit status 0 with
\* success true.
C12_FocusResolvesAfterClose ==
    \A n \in DOMAIN calls :
        (calls[n].fn = FnFocus /\ calls[n].child = "closed" /\ calls[n].code >= 0) =>
            /\ calls[n].settled = "resolved"
            /\ calls[n].value = [boolean |-> focusSucceeded(calls[n])]

\* The failing case of C12: the child could not be started and the call
\* is rejected.
C12_StartFailureRejects ==
    \E n \in DOMAIN calls :
        /\ calls[n].fn = FnFocus
        /\ calls[n].child = "failed"
        /\ calls[n].settled = "rejected"
        /\ calls[n].error = spawnError

isListOrCapture(call) == call.fn \in {FnList, FnShotFull, FnShotRect}

\* C19: listAvailableWindows, getFullDisplayScreenshot and
\* getDisplayScreenshotForRect reject when the child exits with status 0 but
\* the JSON body contains an error field (here: one that is not empty); none
\* of them resolves with such a body.
C19_ZeroExitErrorRejects ==
    \A n \in DOMAIN calls :
        (/\ isListOrCapture(calls[n])
         /\ zeroExit(calls[n])
         /\ truthy(calls[n].stdout, "error"))
        => calls[n].settled = "rejected"

\* What does hold: the two capture functions reject such a body, with the
\* body's error as the message.
C19_CapturesReject ==
    \A n \in DOMAIN calls :
        (/\ calls[n].fn \in {FnShotFull, FnShotRect}
         /\ zeroExit(calls[n])
         /\ truthy(calls[n].stdout, "error"))
        => /\ calls[n].settled = "rejected"
           /\ calls[n].error.message = calls[n].stdout.error

\* The failing case of C19: listAvailableWindows resolves with a body that
\* names an error and has no list of windows.
C19_ListResolvesWithError ==
    \E n \in DOMAIN calls :
        /\ calls[n].fn = FnList
        /\ zeroExit(calls[n])
        /\ truthy(calls[n].stdout, "error")
        /\ "availableWindows" \notin DOMAIN calls[n].stdout
        /\ calls[n].settled = "resolved"
        /\ calls[n].value = calls[n].stdout

rejectedByEnvelope ==
    /\ calls # <<>>
    /\ calls[1].fn \in Fns
    /\ calls[1].settled = "rejected"
    /\ calls[Len(calls)].child = "closed"
    /\ calls[Len(calls)].code # 0
    /\ truthy(calls[Len(calls)].stdout, "error")

\* C18: every terminal rejection of an extraction that comes from an error
\* envelope carrying availableWindows or needsPermission exposes that list
\* or that flag on the raised error, also when the failure is that of the
\* second call after the permission prompt and when a permission error is
\* received while autoRetry is off.
C18_RejectionsCarryContext ==
    rejectedByEnvelope =>
        LET envelope == calls[Len(calls)].stdout
            raised == calls[1].error
        IN  /\ "availableWindows" \in DOMAIN envelope =>
                   /\ "availableWindows" \in DOMAIN raised
                   /\ raised.availableWindows = envelope.availableWindows
            /\ truthy(envelope, "needsPermission") =>
                   "needsPermission" \in DOMAIN raised

\* The failing cases of C18: a not-found envelope received by the second
\* call is raised without its list, under the wrapped message; and a
\* permission envelope received with autoRetry off is raised as a plain
\* error.
C18_WrappedErrorDropsList ==
    /\ rejectedByEnvelope
    /\ Len(calls) = 2
    /\ Len(calls[2].stdout.error) > 0
    /\ "availableWindows" \in DOMAIN calls[2].stdout
    /\ "availableWindows" \in DOMAIN calls[2].error
    /\ DOMAIN calls[1].error = {"message"}

C18_PermissionFlagDropped ==
    /\ rejectedByEnvelope
    /\ Len(calls) = 1
    /\ ~calls[1].autoRetry
    /\ truthy(calls[1].stdout, "needsPermission")
    /\ DOMAIN calls[1].error = {"message"}
    /\ calls[1].error.message = calls[1].stdout.error

nonPositiveSize == windowInfo.width <= 0 \/ windowInfo.height <= 0

\* C20: normalizeCoordinatesToScreenshot, normalizeSizeToScreenshot and
\* normalizeScreenCoordinatesToFullScreenshot treat a window or display
\* width or height <= 0 as a fatal error: none of them returns a coordinate
\* or a size for it.
C20_NonPositiveSizeRaises ==
    nonPositiveSize =>
        /\ normalized = <<>>
        /\ normalizedSize = <<>>
        /\ normalizedFull = <<>>

\* The failing cases of C20.  For a window of width 0 the three functions
\* return: the point at the window's left edge maps to NaN, a point to its
\* right to the screenshot's width, and a width of 1 scales to Infinity.
C20_ZeroWidthGivesNaN ==
    /\ windowInfo.width = 0
    /\ screenCoords[1] = windowInfo.x
    /\ normalized # <<>> /\ isNaN(normalized[1])
    /\ normalizedFull # <<>> /\ isNaN(normalizedFull[1])

C20_ZeroWidthGivesInfinity ==
    /\ windowInfo.width = 0
    /\ screenCoords[1] = 1
    /\ normalizedSize # <<>>
    /\ normalizedSize[1] = number(1, 0)

\* For a window of negative width the scale is negative: a point to the
\* right of the origin maps to 0.
C20_NegativeWidthGivesZero ==
    /\ windowInfo.width < 0
    /\ screenCoords[1] > windowInfo.x
    /\ normalized # <<>>
    /\ normalized[1] = fromInt(0)

(***************************************************************************)
(* Claims about the click action                                           *)
(***************************************************************************)
\* The nodes of the tree that carry the id asked for.
nodesWithId == {n \in nodesOf(clickCall.tree) : n.id = clickCall.nodeId}

hasGeometry(n) == "position" \in DOMAIN n /\ "size" \in DOMAIN n

clickCommands == SelectSeq(invoked, LAMBDA r : r.cmd = "--click-absolute")

\* C14: click rejects when nodeId is the id of no node of the tree, and when
\* the node lacks position or size; in both cases nothing outside is run: no
\* screenshot is captured and no click command is issued.
C14_UnclickableRejectsBeforeAnyProcess ==
    (/\ clickCall.pc # "idle"
     /\ \A n \in nodesWithId : ~hasGeometry(n))
    => /\ invoked = <<>>
       /\ clickCall.pc \in {"called", "done"}
       /\ clickCall.pc = "done" =>
              /\ clickCall.settled = "rejected"
              /\ clickCall.error =
                     IF nodesWithId = {}
                     THEN <<"Node with id ">> \o clickCall.nodeId
                              \o <<" not found in accessibility tree">>
                     ELSE <<"Node ">> \o clickCall.nodeId
                              \o <<" does not have position/size and cannot be clicked">>

\* C14 witness: the node is there and has a position but no size; the call
\* is rejected and nothing was run.
C14_Witness ==
    /\ clickCall.pc = "done"
    /\ \E n \in nodesWithId : "position" \in DOMAIN n /\ "size" \notin DOMAIN n
    /\ clickCall.settled = "rejected"
    /\ invoked = <<>>

\* The id of no node: rejected, nothing run.
C14_AbsentIdReached ==
    /\ clickCall.pc = "done"
    /\ nodesWithId = {}
    /\ clickCall.settled = "rejected"
    /\ invoked = <<>>

clickCommandSucceeded ==
    clickCall.compiled /\ clickCall.started /\ clickCall.code = 0

\* C15 as stated: for a node that resolves and has position and size, a
\* failure of the box annotation or of the capture-and-marker step is caught:
\* the click command is still issued exactly once, after the diagnostic
\* steps, and the outcome of click is that of the click command.
C15_ClickIssuedDespiteDiagnostics ==
    (/\ clickCall.pc = "done"
     /\ \E n \in nodesWithId : hasGeometry(n)
     /\ clickCall.caught # <<>>)
    => /\ Len(clickCommands) = 1
       /\ invoked[Len(invoked)].cmd = "--click-absolute"
       /\ clickCall.settled = "resolved" <=>
              (clickCall.started /\ clickCall.code = 0)

\* C15 (amended): for such a node no failure of a diagnostic step settles
\* the call: click always reaches the click step of clickElement.  The
\* click command is issued exactly once, after every diagnostic step, unless
\* the extractor cannot be prepared (compileSwiftIfNeeded throws), in which
\* case it is not issued and click rejects with that error.  The outcome of
\* click is that of the click step alone.
C15_DiagnosticsNeverSettle ==
    (/\ clickCall.pc # "idle"
     /\ \E n \in nodesWithId : hasGeometry(n))
    => /\ clickCall.pc # "done" =>
              clickCall.settled = "pending" /\ clickCommands = <<>>
       /\ clickCall.pc = "done" =>
              /\ Len(clickCommands) = (IF clickCall.compiled THEN 1 ELSE 0)
              /\ clickCall.compiled =>
                     invoked[Len(invoked)].cmd = "--click-absolute"
              /\ clickCall.settled = "resolved" <=> clickCommandSucceeded
              /\ clickCall.settled = "rejected" <=> ~clickCommandSucceeded
              /\ clickCall.settled = "rejected" =>
                     clickCall.error[1] \in
                         {"Failed to compile Swift file: ",
                          "Failed to execute click: ",
                          "Click command failed with code "}

\* C15 witness: the annotation, the capture and clickElement's own capture
\* all failed, and the click was issued last and resolved the call.
C15_Witness ==
    /\ clickCall.pc = "done"
    /\ clickCall.caught = <<"annotate", "capture", "display">>
    /\ Len(clickCommands) = 1
    /\ invoked[Len(invoked)].cmd = "--click-absolute"
    /\ clickCall.settled = "resolved"

\* The failing case of C15 as stated: the capture failed and was caught,
\* then the extractor could not be prepared; no click command was issued.
C15_CompileFailureReached ==
    /\ clickCall.pc = "done"
    /\ "capture" \in {clickCall.caught[i] : i \in DOMAIN clickCall.caught}
    /\ ~clickCall.compiled
    /\ clickCommands = <<>>
    /\ clickCall.settled = "rejected"

\* position + size / 2 on both axes, as text, from the node alone.
centreText(n) ==
    <<stringOfNumber(number(2 * n.position[1] + n.size[1], 2)),
      stringOfNumber(number(2 * n.position[2] + n.size[2], 2))>>

\* C16: the coordinates given to --click-absolute are exactly
\* (position.x + size.width / 2, position.y + size.height / 2): they depend
\* neither on the window rectangle nor on the display the capture reported;
\* only the marker is drawn through the display, at that same centre.
C16_ClickAtGlobalCentre ==
    clickCall.pc # "idle" =>
        \A i \in DOMAIN invoked :
            /\ invoked[i].cmd = "--click-absolute" =>
                   \E n \in nodesWithId :
                       hasGeometry(n) /\ invoked[i].args = centreText(n)
            /\ invoked[i].cmd = "drawCircleAtScreenCoordinatesOnFullScreenshot" =>
                   \E n \in nodesWithId :
                       /\ hasGeometry(n)
                       /\ <<stringOfNumber(invoked[i].args[1][1]),
                            stringOfNumber(invoked[i].args[1][2])>> = centreText(n)

\* C16 witness: a button at (0, 0) of size 1 x 2, in a window at (1, 1), on
\* a display at (-4, 0): the marker was drawn for that display and the click
\* went to "0.5", "1".
C16_Witness ==
    /\ clickCall.pc = "done"
    /\ clickCall.windowInfo.x = 1
    /\ \E i \in DOMAIN invoked :
           /\ invoked[i].cmd = "drawCircleAtScreenCoordinatesOnFullScreenshot"
           /\ invoked[i].args[2].x = -4
    /\ Len(clickCommands) = 1
    /\ clickCommands[1].args = <<<<"0", ".", "5">>, <<"1">>>>

\* C17: clickElement rejects when the click command exits non-zero and also
\* when its response is malformed (the output is not a JSON body reporting
\* success); it resolves only for a well-formed successful response.
C17_MalformedResponseRejects ==
    (clickCall.pc = "done" /\ clickCommands # <<>>)
    => (clickCall.settled = "resolved" <=>
            /\ clickCall.started
            /\ clickCall.code = 0
            /\ clickCall.stdout = "{\"success\": true}")

\* What does hold: a non-zero exit rejects, and a zero exit resolves
\* whatever the output.
C17_ExitStatusDecides ==
    (clickCall.pc = "done" /\ clickCommands # <<>>)
    => (clickCall.settled = "resolved" <=>
            (clickCall.started /\ clickCall.code = 0))

\* The failing case of C17: exit status 0 with output that is not JSON, and
\* the call resolved.
C17_MalformedResolves ==
    /\ clickCall.pc = "done"
    /\ clickCall.started /\ clickCall.code = 0
    /\ clickCall.stdout = "not json"
    /\ clickCall.settled = "resolved"

(***************************************************************************)
(* Claims about extraction by window identifier                            *)
(***************************************************************************)
isById(call) == call.fn = FnById

\* C21: getAccessibilityTreeById called with autoRetry on, whose extractor
\* exits non-zero with a body naming an error and needsPermission, surfaces
\* the prompt, stays pending until the user acknowledges, and then
\* dispatches once more with autoRetry off.
C21_ByIdPermissionRetry ==
    (calls # <<>> /\ isById(calls[1]) /\ permissionNeeded(calls[1])) =>
        /\ prompts = 1
        /\ calls[1].stage \in {"prompting", "retrying", "done"}
        /\ acks = 0 => calls[1].settled = "pending"
        /\ Len(calls) = 2 => calls[2].autoRetry = FALSE

\* What getAccessibilityTreeById does instead: it never prompts and never
\* dispatches again; the permission error rejects the call at once with the
\* body's error as message, or with the body's list when it has one.
C21_ByIdRejectsAtOnce ==
    (calls # <<>> /\ isById(calls[1])) =>
        /\ prompts = 0 /\ acks = 0 /\ Len(calls) = 1 /\ dispatches <= 1
        /\ permissionNeeded(calls[1]) =>
               /\ calls[1].stage = "done"
               /\ calls[1].settled = "rejected"
               /\ calls[1].error.message = calls[1].stdout.error

\* The permission error reaches getAccessibilityTreeById with autoRetry on.
C21_ByIdPermissionReached ==
    /\ calls # <<>>
    /\ isById(calls[1])
    /\ permissionNeeded(calls[1])
    /\ calls[1].settled = "rejected"
    /\ prompts = 0

(***************************************************************************)
(* Claims about settlement                                                 *)
(***************************************************************************)
exited(call) == call.child \in {"closed", "failed"}

\* Once the child of a call has emitted close or error the call is settled,
\* unless it is at the permission prompt or awaits its redispatched call.
\* Only the permission error of getAccessibilityTree with autoRetry leads to
\* the prompt, and the redispatched call has autoRetry off and is the last.
C22_ExitedIsSettledOrPrompted ==
    \A n \in DOMAIN calls :
        /\ exited(calls[n]) =>
               \/ calls[n].settled # "pending"
               \/ calls[n].stage \in {"prompting", "retrying"}
        /\ calls[n].child = "none" => calls[n].settled = "rejected"
        /\ calls[n].stage = "prompting" =>
               /\ permissionNeeded(calls[n])
               /\ isGetAccessibilityTree(calls[n])
               /\ n = Len(calls)
        /\ calls[n].stage = "retrying" =>
               /\ n = 1 /\ Len(calls) = 2
               /\ calls[2].autoRetry = FALSE
               /\ calls[2].stage # "prompting"

\* The prompt is left only by the user's acknowledgment, and the
\* redispatch follows in the same step.
C22_PromptLeftByAck ==
    \A n \in DOMAIN calls :
        (calls[n].stage = "prompting" /\ calls'[n].stage # "prompting") =>
            /\ acks' = acks + 1
            /\ calls'[n].stage = "retrying"
            /\ Len(calls') = Len(calls) + 1

\* C22: every list, extract, focus, capture and click call is settled once
\* its child has emitted close or error, except at the permission prompt:
\* the prompt is left only by a user acknowledgment, the single redispatch
\* follows it, and the call settles once the redispatched call has.
C22_SettlesUnlessPrompting ==
    /\ []C22_ExitedIsSettledOrPrompted
    /\ [][C22_PromptLeftByAck]_vars
    /\ \A n \in {1} :
           (/\ n \in DOMAIN calls
            /\ exited(calls[n])
            /\ calls[n].stage # "prompting"
            /\ calls[n].stage = "retrying" => exited(calls[n + 1]))
           ~> (n \in DOMAIN calls /\ calls[n].settled # "pending")

\* C22 witness: a call went through the prompt and the redispatch and is
\* settled.
C22_Witness ==
    /\ Len(calls) = 2
    /\ acks = 1
    /\ exited(calls[1]) /\ exited(calls[2])
    /\ calls[1].stage = "done"
    /\ calls[1].settled # "pending"

\* A click call is settled by its child's close.
C22_ClickSettled ==
    /\ calls # <<>>
    /\ calls[1].fn = FnClick
    /\ calls[1].child = "closed"
    /\ calls[1].settled = "resolved"

\* Leaving the prompt is not guaranteed: nothing but the user ends it, so
\* this does not hold.
C22_PromptAlwaysLeft ==
    (calls # <<>> /\ calls[1].stage = "prompting")
        ~> (calls # <<>> /\ calls[1].stage # "prompting")

(***************************************************************************)
(* Claims about the child's events                                         *)
(***************************************************************************)
\* While the child runs the call is undecided, whatever it has written;
\* what the close handler parsed is the parse of all the chunks the child
\* wrote, in the order written.
C23_ParsedAtCloseOnly ==
    \A n \in DOMAIN calls :
        /\ calls[n].child = "running" =>
               /\ calls[n].settled = "pending"
               /\ calls[n].stage = "waiting"
               /\ calls[n].stdout = NoText
        /\ (calls[n].child = "closed" /\ calls[n].fn # FnClick) =>
               /\ calls[n].data = calls[n].written
               /\ calls[n].stdout = parse(calls[n].written)
        /\ calls[n].settled # "pending" => calls[n].child # "running"

\* A data event changes nothing but what has been collected; a settled
\* promise keeps its state, its value and its error through every later
\* event.
C23_SettledOnce ==
    \A n \in DOMAIN calls :
        /\ calls'[n].written # calls[n].written =>
               /\ calls'[n].settled = calls[n].settled
               /\ calls'[n].stage = calls[n].stage
               /\ calls'[n].stdout = calls[n].stdout
        /\ calls[n].settled # "pending" =>
               /\ calls'[n].settled = calls[n].settled
               /\ calls'[n].value = calls[n].value
               /\ calls'[n].error = calls[n].error

\* C23: an operation's outcome is decided only at its child's close or
\* error event, never at a data event; standard output is parsed at close
\* as the in-order concatenation of all chunks received; and the promise
\* settles once, the first settlement winning, when both the error and the
\* close event arrive.
C23_DecidedAtCloseOrError ==
    []C23_ParsedAtCloseOnly /\ [][C23_SettledOnce]_vars

\* C23 witness: two chunks were collected and the call resolved at close
\* with the tree they spell.
C23_Witness ==
    /\ calls # <<>>
    /\ calls[1].child = "closed"
    /\ Len(calls[1].written) = 2
    /\ calls[1].data = calls[1].written
    /\ calls[1].settled = "resolved"
    /\ "a11y" \in DOMAIN calls[1].value

\* The error event and then the close event arrived: the first rejection
\* stands.
C23_ErrorThenClose ==
    /\ calls # <<>>
    /\ calls[1].child = "closed"
    /\ calls[1].code = -1
    /\ calls[1].settled = "rejected"
    /\ calls[1].error = startError(calls[1].fn)

\* The child closed after the first chunk alone: the text does not parse.
C23_TruncatedReached ==
    /\ calls # <<>>
    /\ calls[1].child = "closed"
    /\ Len(calls[1].written) = 1
    /\ calls[1].stdout = Truncated
    /\ calls[1].settled = "rejected"

(***************************************************************************)
(* Claims about the display transform                                      *)
(***************************************************************************)
\* C24: for every point, rectangle and screenshot size,
\* normalizeScreenCoordinatesToFullScreenshot gives what
\* normalizeCoordinatesToScreenshot gives for the same arguments.
C24_DisplayTransformIsWindowTransform ==
    (normalized # <<>> /\ normalizedFull # <<>>) => normalizedFull = normalized

\* C24 witness: both were computed for a rectangle away from the origin and
\* a point inside it; the result is strictly inside the screenshot, and
\* is not the point itself.
C24_Witness ==
    /\ normalized # <<>> /\ normalizedFull # <<>>
    /\ windowInfo.x = 1 /\ windowInfo.width = 2
    /\ screenCoords[1] = 2
    /\ normalizedFull[1] # fromInt(screenCoords[1])
    /\ lessThan(fromInt(0), normalizedFull[1])
    /\ lessThan(normalizedFull[1], fromInt(screenshotDimensions.width))

\* Both were computed for a rectangle of width zero: each gives NaN or the
\* clamp of an infinity, the same for both.
C24_ZeroWidthReached ==
    /\ normalized # <<>> /\ normalizedFull # <<>>
    /\ windowInfo.width = 0
    /\ isNaN(normalizedFull[1])

(***************************************************************************)
(* Claims about synthesized window ids                                     *)
(***************************************************************************)
\* The first n characters of s, lowercased, that are lower-case letters or
\* digits, in order.
RECURSIVE firstAlnum(_, _)
firstAlnum(s, n) ==
    IF n = 0 \/ s = <<>> THEN <<>>
    ELSE LET c == LowerChar(Head(s))
         IN  IF c \in LowerCase \cup Digits
             THEN <<c>> \o firstAlnum(Tail(s), n - 1)
             ELSE firstAlnum(Tail(s), n)

expectedId(w) == firstAlnum(w.app, 10) \o <<"-">> \o firstAlnum(w.title, 15)

\* C25: searchWindows gives every window whose id is absent or empty the id
\* made of the first 10 lower-case letters and digits of the lowercased
\* application name, "-", and the first 15 of the lowercased title; a window
\* with a non-empty id keeps it; and the scoring sees these ids, so a query
\* equal to a synthesized id scores as an id match.
C25_MissingIdSynthesized ==
    searched =>
        /\ Len(scored) = Len(windows)
        /\ \A i \in Positions :
               /\ scored[i].window.id =
                      (IF "id" \in DOMAIN windows[i] /\ windows[i].id # <<>>
                       THEN windows[i].id ELSE expectedId(windows[i]))
               /\ scored[i].window.app = windows[i].app
               /\ scored[i].window.title = windows[i].title
               /\ toLowerCase(query) = scored[i].window.id
                      => scored[i].score = IdMatchScore
        /\ \A k \in 1..Len(matches) :
               matches[k].id = scored[matches[k].ref].window.id

\* C25 witness: a window without id whose application name and title are
\* both cut was searched by its synthesized id and came back with it.
C25_Witness ==
    /\ searched
    /\ ~hasId(windows[1])
    /\ Len(stripNonAlnum(toLowerCase(windows[1].app))) > 10
    /\ Len(stripNonAlnum(toLowerCase(windows[1].title))) > 15
    /\ Len(scored[1].window.id) = 10 + 1 + 15
    /\ query = scored[1].window.id
    /\ scored[1].score = IdMatchScore
    /\ Len(matches) = 1 /\ matches[1].id = query

\* A window with the empty id and nothing to keep of its title gets the
\* application part and the hyphen alone.
C25_EmptyIdReached ==
    /\ searched
    /\ "id" \in DOMAIN windows[1] /\ windows[1].id = <<>>
    /\ scored[1].window.id = <<"a", "b", "-">>

(***************************************************************************)
(* Claims about the objects of a tree                                      *)
(***************************************************************************)
hadIds == \E a \in DOMAIN heap.before : "id" \in DOMAIN heap.before[a]

\* C26: assignHierarchicalIds writes to no object of its input: after the
\* call every input node has the fields, the children list and the id, if
\* any, it had before; the tree returned is made of new objects only, and
\* holds the addressed tree.
C26_InputNotMutated ==
    (heap # Null /\ heap.called) =>
        /\ \A a \in DOMAIN heap.before :
               /\ a \in DOMAIN heap.objects
               /\ heap.objects[a] = heap.before[a]
        /\ valueAt(heap.objects, inputAt(<<>>)) = valueAt(heap.before, inputAt(<<>>))
        /\ heap.result \notin DOMAIN heap.before
        /\ \A a \in DOMAIN heap.objects :
               a.space = "copy" =>
                   /\ "id" \in DOMAIN heap.objects[a]
                   /\ hasChildren(heap.objects[a]) =>
                          \A i \in 1..Len(heap.objects[a].children) :
                              heap.objects[a].children[i].space = "copy"
        /\ valueAt(heap.objects, heap.result) = assigned

\* C26 witness: a tree of four nodes that carried ids of an earlier
\* addressing was addressed again; the input keeps its old ids and the
\* result has the new ones.
C26_Witness ==
    /\ heap # Null /\ heap.called
    /\ hadIds
    /\ Cardinality(DOMAIN heap.before) = 4
    /\ heap.objects[inputAt(<<>>)].id = <<"7", ".">>
    /\ heap.objects[heap.result].id = <<"1", ".">>
    /\ Cardinality(DOMAIN heap.objects) = 8

(***************************************************************************)
(* Claims about act                                                        *)
(***************************************************************************)
\* The place of a step in act: listing, focus, extraction, element lookup,
\* and then whatever click runs.
stepRank(cmd) ==
    CASE cmd = "--list" -> 1
      [] cmd = "--focus-id" -> 2
      [] cmd = "--window-id" -> 3
      [] cmd = "findElement" -> 4
      [] OTHER -> 5

did(cmd) == \E i \in DOMAIN invoked : invoked[i].cmd = cmd

\* C27: act runs focus, extraction by window id, element lookup and click
\* in this order, each of the first three once; the extraction is
\* dispatched when focus returned false as when it returned true; and the
\* click command is issued only after an extraction that succeeded and a
\* lookup that returned a non-empty node id.
C27_ActOrder ==
    /\ \A i, j \in DOMAIN invoked :
           i < j =>
               /\ stepRank(invoked[i].cmd) <= stepRank(invoked[j].cmd)
               /\ stepRank(invoked[i].cmd) < 5
                      => stepRank(invoked[i].cmd) < stepRank(invoked[j].cmd)
    /\ actCall.focusSuccess \in {"true", "false"} =>
           (actCall.pc = "extract" \/ did("--window-id"))
    /\ did("--window-id") =>
           (did("--focus-id") /\ actCall.focusSuccess \in {"true", "false"})
    /\ did("findElement") => (did("--window-id") /\ actCall.result # Null)
    /\ (\E i \in DOMAIN invoked : stepRank(invoked[i].cmd) = 5) =>
           /\ did("findElement")
           /\ actCall.result # Null
           /\ actCall.nodeId # <<>>
    /\ clickCall # [pc |-> "idle"] =>
           /\ actCall.nodeId # <<>>
           /\ clickCall.nodeId = actCall.nodeId
           /\ clickCall.tree = actCall.result.a11y
           /\ clickCall.windowInfo = actCall.result.window

\* C27 witness: the window could not be focused, and act went on to
\* extract, look up and click: the four steps are in the log in order, the
\* click command last.
C27_Witness ==
    /\ actCall.focusSuccess = "false"
    /\ actCall.pc = "returned"
    /\ Len(invoked) >= 5
    /\ invoked[2].cmd = "--focus-id"
    /\ invoked[3].cmd = "--window-id"
    /\ invoked[4].cmd = "findElement"
    /\ invoked[Len(invoked)].cmd = "--click-absolute"

\* The lookup found nothing: act returns without a click.
C27_NoElementReached ==
    /\ actCall.pc = "returned"
    /\ did("findElement")
    /\ actCall.nodeId = <<>>
    /\ clickCall = [pc |-> "idle"]
    /\ Len(invoked) = 4

(***************************************************************************)
(* Claims about ancestry                                                   *)
(***************************************************************************)
isProperPrefix(s, t) == Len(s) < Len(t) /\ SubSeq(t, 1, Len(s)) = s

\* C28: in a tree produced by assignHierarchicalIds, node a is a proper
\* ancestor of node b exactly when a's id ends with "." and is a proper
\* prefix of b's id.
C28_AncestorIffDottedPrefix ==
    assigned # Null =>
        \A a, b \in nodesOf(assigned) :
            isProperPrefix(a.ref, b.ref)
                <=> (endsWithDot(a.id) /\ isProperPrefix(a.id, b.id))

\* C28 witness: the tree has the leaf "1.1", its sibling "1.10" and the
\* parent "1.2." of "1.2.1": an id that is a prefix of another without
\* being its ancestor, and one that is both.
C28_Witness ==
    /\ assigned # Null
    /\ parentId = <<>>
    /\ \E a, b, c, e \in nodesOf(assigned) :
           /\ a.id = <<"1", ".", "2", ".">>
           /\ b.id = <<"1", ".", "2", ".", "1">>
           /\ c.id = <<"1", ".", "1", "0">>
           /\ e.id = <<"1", ".", "1">>
           /\ isProperPrefix(a.ref, b.ref)
           /\ isProperPrefix(e.id, c.id)
           /\ ~isProperPrefix(e.ref, c.ref)

(***************************************************************************)
(* Claims about the window-id test                                         *)
(***************************************************************************)
\* C29: every id synthesized by generateWindowId is made of lower-case
\* letters, digits and hyphens and has a hyphen, so getAccessibilityTree
\* takes it for a window id and runs the extractor with --window-id and
\* the id, never with the id as a title.
C29_SynthesizedIdIsWindowId ==
    searched =>
        \A i \in Positions :
            ~hasId(windows[i]) =>
                /\ scored[i].window.id
                       = generateWindowId(windows[i].app, windows[i].title)
                /\ isWindowId(scored[i].window.id)
                /\ extractorArgs(scored[i].window.id)
                       = <<<<"--window-id">>, scored[i].window.id>>

\* C29 witness: a window without id whose application name and title hold
\* upper case, spaces and punctuation got an id that passes the test.
C29_Witness ==
    /\ searched
    /\ ~hasId(windows[1])
    /\ \E i \in 1..Len(windows[1].app) : windows[1].app[i] \in {" ", "-"}
    /\ \E i \in 1..Len(windows[1].title) : windows[1].title[i] \in UpperCase
    /\ \E i \in 1..Len(windows[1].title) : windows[1].title[i] = "."
    /\ isWindowId(scored[1].window.id)
    /\ Len(extractorArgs(scored[1].window.id)) = 2

\* Nothing of the application name and nothing of the title is kept: the
\* id is the hyphen alone, and passes.
C29_BareHyphenReached ==
    /\ searched
    /\ ~hasId(windows[1])
    /\ scored[1].window.id = <<"-">>
    /\ isWindowId(scored[1].window.id)

\* A supplied id with an upper-case letter does not pass: the test is not
\* passed by everything.
C29_SuppliedIdFails ==
    /\ searched
    /\ hasId(windows[1])
    /\ ~isWindowId(scored[1].window.id)
    /\ extractorArgs(scored[1].window.id) = <<scored[1].window.id>>

(***************************************************************************)
(* Claims about the empty query                                            *)
(***************************************************************************)
\* C30: for the empty query searchWindows leaves no window out: every
\* window scores above 0 by the three substring rules (and no more, but for
\* an empty application name or title), the result has every input window
\* once, and findBestWindow returns a window when there is one.
C30_EmptyQueryKeepsAll ==
    (searched /\ query = <<>>) =>
        /\ \A i \in Positions :
               /\ scored[i].score > 0
               /\ scored[i].score >= CombinedScore + ContainsScore + ContainsScore
               /\ (windows[i].app # <<>> /\ windows[i].title # <<>>) =>
                      scored[i].score = CombinedScore + ContainsScore + ContainsScore
        /\ Len(matches) = Len(windows)
        /\ {matches[k].ref : k \in 1..Len(matches)} = Positions
        /\ windows # <<>> => (best # Null /\ best = matches[1])

\* C30 witness: three windows, one of them with a supplied id, were
\* searched with the empty query and all three came back.
C30_Witness ==
    /\ searched /\ query = <<>>
    /\ Len(windows) = MaxWindows
    /\ \E i \in Positions : hasId(windows[i])
    /\ \E i \in Positions : ~hasId(windows[i])
    /\ Len(matches) = MaxWindows
    /\ best # Null

====
